---- MODULE Spec2Model ----
(***************************************************************************)
(* Durak room server (src/src/index.ts, the hibernatable RoomDO revision,  *)
(* lines 220-1201): the rules engine, the room's gameplay handlers, the    *)
(* persisted snapshot and the frames the handlers send.                    *)
(*                                                                         *)
(* A card token is the pair <<first character, rest of the string>> of the *)
(* wire string ("S10" is <<"S", "10">>); the empty string and JavaScript   *)
(* null are both <<>> (both are falsy where the code tests `p.d`).         *)
(***************************************************************************)
EXTENDS Integers, Sequences, FiniteSets, TLC

(* ------------------------------ bounds -------------------------------- *)

\* Requests one incarnation of the room actor handles: the clock starts at 0
\* when the actor is built, every request reads Date.now() as the clock and
\* advances it, and requests are handled while the clock is below MaxClock.
MaxClock == 2

\* the requests the matchmaker handles
MaxRequests == 4

\* the number of frames a round of SpecChain handles
MaxChain == 4

\* the cards left in a game that SpecFair plays to its end, and its players
MaxCards == 12

MaxSeats == 2

(* --------------------------- program constants ------------------------ *)

HandSize == 6

SUITS == <<"S", "H", "D", "C">>
RANKS_36 == <<6, 7, 8, 9, 10, 11, 12, 13, 14>>
RANKS_24 == <<9, 10, 11, 12, 13, 14>>

NoCard == <<>>
NoId == "null"

(* ------------------------------ sequences ----------------------------- *)

Range(s) == {s[i] : i \in DOMAIN s}

\* Array.prototype.includes
Includes(s, x) == \E i \in DOMAIN s : s[i] = x

\* Array.prototype.indexOf, 0-based, -1 when absent
IndexOf(s, x) ==
  IF Includes(s, x) THEN (CHOOSE i \in DOMAIN s : s[i] = x /\ \A j \in 1..(i - 1) : s[j] # x) - 1
  ELSE -1

\* s with its i-th (1-based) element spliced out
RemoveAt(s, i) == SubSeq(s, 1, i - 1) \o SubSeq(s, i + 1, Len(s))

(* -------------------------------- cards ------------------------------- *)

rankToStr(r) ==
  CASE r = 11 -> "J"
    [] r = 12 -> "Q"
    [] r = 13 -> "K"
    [] r = 14 -> "A"
    [] r = 6 -> "6"
    [] r = 7 -> "7"
    [] r = 8 -> "8"
    [] r = 9 -> "9"
    [] r = 10 -> "10"

\* [ok |-> FALSE] is the code's null
strToRank(s) ==
  CASE s = "J" -> [ok |-> TRUE, rank |-> 11]
    [] s = "Q" -> [ok |-> TRUE, rank |-> 12]
    [] s = "K" -> [ok |-> TRUE, rank |-> 13]
    [] s = "A" -> [ok |-> TRUE, rank |-> 14]
    [] s = "6" -> [ok |-> TRUE, rank |-> 6]
    [] s = "7" -> [ok |-> TRUE, rank |-> 7]
    [] s = "8" -> [ok |-> TRUE, rank |-> 8]
    [] s = "9" -> [ok |-> TRUE, rank |-> 9]
    [] s = "10" -> [ok |-> TRUE, rank |-> 10]
    [] OTHER -> [ok |-> FALSE]

parseCard(card) ==
  IF card = NoCard \/ Len(card) < 2 \/ card[2] = "" THEN [ok |-> FALSE]
  ELSE IF ~Includes(SUITS, card[1]) THEN [ok |-> FALSE]
  ELSE LET r == strToRank(card[2])
       IN IF ~r.ok THEN [ok |-> FALSE]
          ELSE [ok |-> TRUE, suit |-> card[1], rank |-> r.rank]

\* `${s}${rankToStr(r)}` for every suit, then every rank
createDeck(deckSize) ==
  LET ranks == IF deckSize = 24 THEN RANKS_24 ELSE RANKS_36
      n == Len(ranks)
  IN [i \in 1..(Len(SUITS) * n) |->
        <<SUITS[((i - 1) \div n) + 1], rankToStr(ranks[((i - 1) % n) + 1])>>]

\* Fisher-Yates; js[k] is Math.floor(Math.random() * (i + 1)) of the k-th
\* iteration (i = n-1, n-2, ..., 1), 0-based
RECURSIVE shuffleFrom(_, _, _)
shuffleFrom(arr, js, i) ==
  IF i <= 0 THEN arr
  ELSE LET j == js[Len(arr) - i]
           swapped == [arr EXCEPT ![i + 1] = arr[j + 1], ![j + 1] = arr[i + 1]]
       IN shuffleFrom(swapped, js, i - 1)

shuffle(arr, js) == shuffleFrom(arr, js, Len(arr) - 1)

\* position of a suit letter in JavaScript string order
SuitOrd(s) ==
  CASE s = "C" -> 1
    [] s = "D" -> 2
    [] s = "H" -> 3
    [] s = "S" -> 4

\* the comparator on the parsed cards: negative when pa sorts before pb
compareParsed(pa, pb) ==
  IF pa.suit # pb.suit
    THEN (IF SuitOrd(pa.suit) < SuitOrd(pb.suit) THEN -1 ELSE 1)
    ELSE pa.rank - pb.rank

sortBySuitThenRank(a, b) == compareParsed(parseCard(a), parseCard(b))

RECURSIVE InsertSorted(_, _)
InsertSorted(s, c) ==
  IF s = <<>> THEN <<c>>
  ELSE IF sortBySuitThenRank(c, Head(s)) < 0 THEN <<c>> \o s
  ELSE <<Head(s)>> \o InsertSorted(Tail(s), c)

\* hand.sort(sortBySuitThenRank) (a stable sort)
RECURSIVE SortFirst(_, _)
SortFirst(s, n) ==
  IF n = 0 THEN <<>>
  ELSE CHOOSE r \in {InsertSorted(sorted, s[n]) : sorted \in {SortFirst(s, n - 1)}} : TRUE

SortHand(s) == CHOOSE r \in {SortFirst(v, Len(v)) : v \in {s}} : TRUE

\* a removeCard that leaves the card in the hand
removeCardKept(hand, card) == hand

\* the hand after removeCard; the hand itself when the card is absent
removeCard(hand, card) ==
  LET idx == IndexOf(hand, card)
  IN IF idx = -1 THEN hand ELSE RemoveAt(hand, idx + 1)

\* cardBeats on the parsed cards d and a
beatsParsed(d, a, trumpSuit) ==
  IF ~d.ok \/ ~a.ok THEN FALSE
  ELSE IF d.suit = a.suit THEN d.rank > a.rank
  ELSE d.suit = trumpSuit /\ a.suit # trumpSuit

\* a cardBeats that does not compare the ranks within a suit
beatsParsedNoRank(d, a, trumpSuit) ==
  IF ~d.ok \/ ~a.ok THEN FALSE
  ELSE IF d.suit = a.suit THEN TRUE
  ELSE d.suit = trumpSuit /\ a.suit # trumpSuit

cardBeatsNoRank(defCard, atkCard, trumpSuit) ==
  beatsParsedNoRank(parseCard(defCard), parseCard(atkCard), trumpSuit)

cardBeats(defCard, atkCard, trumpSuit) ==
  beatsParsed(parseCard(defCard), parseCard(atkCard), trumpSuit)

\* a rank set that holds every rank, whatever lies on the table
tableRanksAll(table) == {strToRank(r).rank : r \in {"6", "7", "8", "9", "10", "J", "Q", "K", "A"}}

tableRanks(table) ==
  {parseCard(table[i].a).rank : i \in {k \in DOMAIN table : parseCard(table[k].a).ok}}
  \cup
  {parseCard(table[i].d).rank :
     i \in {k \in DOMAIN table : table[k].d # NoCard /\ parseCard(table[k].d).ok}}

attackRanksOnly(table) ==
  {parseCard(table[i].a).rank : i \in {k \in DOMAIN table : parseCard(table[k].a).ok}}

isNeedDefense(table) == \E i \in DOMAIN table : table[i].d = NoCard

isFullyDefended(table) == Len(table) > 0 /\ \A i \in DOMAIN table : table[i].d # NoCard

\* active[id] read as a JavaScript truth value: an id outside the record is falsy
IsActive(active, id) == id \in DOMAIN active /\ active[id]

RECURSIVE nextActiveFrom(_, _, _, _, _)
nextActiveFrom(order, active, fromId, start, k) ==
  IF k > Len(order) THEN fromId
  ELSE LET id == order[((start + k) % Len(order)) + 1]
       IN IF IsActive(active, id) THEN id
          ELSE nextActiveFrom(order, active, fromId, start, k + 1)

nextActiveId(order, active, fromId) ==
  LET start == IndexOf(order, fromId)
  IN IF start = -1 THEN order[1]
     ELSE nextActiveFrom(order, active, fromId, start, 1)

listAttackers(order, active, defenderId) ==
  SelectSeq(order, LAMBDA id : IsActive(active, id) /\ id # defenderId)

\* [ok |-> FALSE] is the code's null
RECURSIVE lowestTrumpRankFrom(_, _, _)
lowestTrumpRankFrom(hand, trumpSuit, best) ==
  IF hand = <<>> THEN best
  ELSE LET p == parseCard(Head(hand))
       IN IF ~p.ok \/ p.suit # trumpSuit THEN lowestTrumpRankFrom(Tail(hand), trumpSuit, best)
          ELSE IF ~best.ok \/ p.rank < best.rank
            THEN lowestTrumpRankFrom(Tail(hand), trumpSuit, [ok |-> TRUE, rank |-> p.rank])
            ELSE lowestTrumpRankFrom(Tail(hand), trumpSuit, best)

lowestTrumpRank(hand, trumpSuit) == lowestTrumpRankFrom(hand, trumpSuit, [ok |-> FALSE])

(* ------------------------------ the engine ---------------------------- *)

\* the one element of a set of one: a value computed once, then named
Only(S) == CHOOSE x \in S : TRUE

Min(a, b) == IF a < b THEN a ELSE b

\* the game after pid has popped `need` cards from the end of the deck
drawCards(g, pid, need) ==
  [g EXCEPT !.hands[pid] = SortHand(g.hands[pid]
                                     \o [i \in 1..need |-> g.deck[Len(g.deck) - i + 1]]),
            !.deck = SubSeq(g.deck, 1, Len(g.deck) - need)]

\* the cards a player holding n cards pops from a deck of d cards
drawNeed(n, d) == IF n < HandSize THEN Min(HandSize - n, d) ELSE 0

\* for each player of drawOrder in turn: pop from the end of the deck while the
\* hand holds fewer than 6 cards and the deck is not empty, then sort the hand
RECURSIVE drawUpTo6(_, _)
drawUpTo6(g, drawOrder) ==
  IF drawOrder = <<>> THEN g
  ELSE Only({drawUpTo6(drawn, Tail(drawOrder)) :
               drawn \in {drawCards(g, Head(drawOrder),
                                    drawNeed(Len(g.hands[Head(drawOrder)]), Len(g.deck)))}})

\* the verdict of pruneOutPlayers once the players without cards are inactive
pruneVerdict(g, alive) ==
  IF Len(alive) = 1 THEN [g EXCEPT !.phase = "finished", !.loser = alive[1]]
  ELSE IF Len(alive) = 0 THEN [g EXCEPT !.phase = "finished", !.loser = NoId]
  ELSE g

\* the game with the active flags active2
pruneTo(g, active2) ==
  pruneVerdict([g EXCEPT !.active = active2], SelectSeq(g.order, LAMBDA id : active2[id]))

\* a pruneOutPlayers that never looks at the hands
pruneSkipped(g) == g

pruneOutPlayers(g) ==
  IF Len(g.deck) > 0 THEN g
  ELSE pruneTo(g, [id \in DOMAIN g.active |->
                     IF g.active[id] /\ Len(g.hands[id]) = 0 THEN FALSE ELSE g.active[id]])

\* the loop "attacker -> around -> defender last" of endRoundTake / endRoundBeat
RECURSIVE drawOrderFrom(_, _, _)
RECURSIVE drawOrderNext(_, _, _)
drawOrderNext(g, nxt, acc2) ==
  IF nxt = g.defenderId THEN acc2
  ELSE IF Len(acc2) > Len(g.order) + 2 THEN acc2
  ELSE drawOrderFrom(g, nxt, acc2)

drawOrderFrom(g, cur, acc) ==
  drawOrderNext(g, nextActiveId(g.order, g.active, cur),
                Append(acc, nextActiveId(g.order, g.active, cur)))

roundDrawOrder(g) == drawOrderFrom(g, g.attackerId, <<g.attackerId>>)

\* the cards of the table, attack card then defense card of each pair
RECURSIVE tableCards(_)
tableCards(table) ==
  IF table = <<>> THEN <<>>
  ELSE <<Head(table).a>> \o (IF Head(table).d # NoCard THEN <<Head(table).d>> ELSE <<>>)
       \o tableCards(Tail(table))

resetRoundVars(g) ==
  [g EXCEPT !.passed = <<>>, !.takeDeclared = FALSE, !.roundLimit = Len(g.hands[g.defenderId])]

\* the table moved into the defender's hand
takeTable(g) ==
  [g EXCEPT !.hands[g.defenderId] = SortHand(g.hands[g.defenderId] \o tableCards(g.table)),
            !.table = <<>>]

\* the table moved to the discard pile
discardTable(g) ==
  [g EXCEPT !.discard = g.discard \o tableCards(g.table), !.table = <<>>]

drawRound(g) == drawUpTo6(g, roundDrawOrder(g))

\* g.defenderId = nextActiveId(g.order, g.active, oldDef)
rotateDefender(g) ==
  [g EXCEPT !.defenderId = nextActiveId(g.order, g.active, g.defenderId)]

\* an attacker kept without a look at the active flag
fixAttackerKept(g, newAtk) == newAtk

\* the three fix-ups of the roles after pruneOutPlayers, on the candidates
\* newAtk and newDef
fixAttacker(g, newAtk) ==
  IF ~IsActive(g.active, newAtk) THEN nextActiveId(g.order, g.active, newAtk) ELSE newAtk

fixDefender(g, newDef) ==
  IF ~IsActive(g.active, newDef) THEN nextActiveId(g.order, g.active, newDef) ELSE newDef

fixSame(g, newAtk, newDef) ==
  IF newDef = newAtk THEN nextActiveId(g.order, g.active, newAtk) ELSE newDef

\* the roles assigned, the round variables reset, the game stamped
startRound(g, newAtk, newDef, now) ==
  [resetRoundVars([g EXCEPT !.attackerId = newAtk, !.defenderId = newDef])
     EXCEPT !.updatedAt = now]

\* an end of round that skips the fix-ups of the roles
settleRolesNoFix(g, newAtk, newDef, now) ==
  IF g.phase = "finished" THEN g
  ELSE startRound(g, newAtk, newDef, now)

\* the rest of an end of round once pruneOutPlayers has run on g
settleRoles(g, newAtk, newDef, now) ==
  IF g.phase = "finished" THEN g
  ELSE startRound(g, fixAttacker(g, newAtk),
                  fixSame(g, fixAttacker(g, newAtk), fixDefender(g, newDef)), now)

takeSettled(g, now) == settleRoles(g, g.attackerId, g.defenderId, now)

takeSettledNoFix(g, now) == settleRolesNoFix(g, g.attackerId, g.defenderId, now)

endRoundTakeNoFix(g, now) ==
  Only({takeSettledNoFix(pruned, now) :
          pruned \in {pruneOutPlayers(rotateDefender(drawn)) :
                        drawn \in {drawRound(taken) : taken \in {takeTable(g)}}}})

endRoundTake(g, now) ==
  Only({takeSettled(pruned, now) :
          pruned \in {pruneOutPlayers(rotateDefender(drawn)) :
                        drawn \in {drawRound(taken) : taken \in {takeTable(g)}}}})

\* oldDef and newDef are read from the game d after the draw, before the prune
beatSettled(d, now) ==
  Only({settleRoles(pruned, d.defenderId,
                    nextActiveId(d.order, d.active, d.defenderId), now) :
          pruned \in {pruneOutPlayers(d)}})

endRoundBeat(g, now) ==
  Only({beatSettled(drawn, now) :
          drawn \in {drawRound(discarded) : discarded \in {discardTable(g)}}})

(* ----------------------------- validation ----------------------------- *)

\* a validateAttack that makes the attackers wait for the defender
validateAttackAfterDefense(g, playerId, card) ==
  IF ~IsActive(g.active, playerId) THEN "NOT_ACTIVE"
  ELSE IF playerId = g.defenderId THEN "DEFENDER_CANNOT_ATTACK"
  ELSE IF ~g.takeDeclared /\ isNeedDefense(g.table) THEN "DEFENDER_MUST_RESPOND"
  ELSE IF Includes(g.passed, playerId) THEN "YOU_PASSED"
  ELSE IF ~Includes(g.hands[playerId], card) THEN "CARD_NOT_IN_HAND"
  ELSE IF Len(g.table) >= g.roundLimit THEN "ROUND_LIMIT"
  ELSE IF Len(g.table) = 0
    THEN (IF playerId # g.attackerId THEN "ONLY_MAIN_ATTACKER_STARTS" ELSE "OK")
  ELSE LET p == parseCard(card)
       IN IF ~p.ok THEN "BAD_CARD"
          ELSE IF p.rank \notin tableRanks(g.table) THEN "RANK_NOT_ON_TABLE"
          ELSE "OK"

validateAttack(g, playerId, card) ==
  IF ~IsActive(g.active, playerId) THEN "NOT_ACTIVE"
  ELSE IF playerId = g.defenderId THEN "DEFENDER_CANNOT_ATTACK"
  ELSE IF Includes(g.passed, playerId) THEN "YOU_PASSED"
  ELSE IF ~Includes(g.hands[playerId], card) THEN "CARD_NOT_IN_HAND"
  ELSE IF Len(g.table) >= g.roundLimit THEN "ROUND_LIMIT"
  ELSE IF Len(g.table) = 0
    THEN (IF playerId # g.attackerId THEN "ONLY_MAIN_ATTACKER_STARTS" ELSE "OK")
  ELSE LET p == parseCard(card)
       IN IF ~p.ok THEN "BAD_CARD"
          ELSE IF p.rank \notin tableRanks(g.table) THEN "RANK_NOT_ON_TABLE"
          ELSE "OK"

validateDefend(g, card, attackIndex) ==
  IF attackIndex < 0 \/ attackIndex >= Len(g.table) THEN "BAD_ATTACK_INDEX"
  ELSE IF g.table[attackIndex + 1].d # NoCard THEN "ALREADY_DEFENDED"
  ELSE IF ~Includes(g.hands[g.defenderId], card) THEN "CARD_NOT_IN_HAND"
  ELSE IF ~cardBeats(card, g.table[attackIndex + 1].a, g.trumpSuit) THEN "DOES_NOT_BEAT"
  ELSE "OK"

\* a validateTransfer that checks the hand only
validateTransferHandOnly(g, card) ==
  IF ~Includes(g.hands[g.defenderId], card) THEN "CARD_NOT_IN_HAND" ELSE "OK"

validateTransfer(g, card) ==
  IF g.config.mode # "perevodnoy" THEN "MODE_NOT_PEREVODNOY"
  ELSE IF g.takeDeclared THEN "TAKE_ALREADY_DECLARED"
  ELSE IF Len(g.table) = 0 THEN "NOTHING_TO_TRANSFER"
  ELSE IF \E i \in DOMAIN g.table : g.table[i].d # NoCard THEN "CANNOT_TRANSFER_AFTER_DEFEND"
  ELSE IF ~Includes(g.hands[g.defenderId], card) THEN "CARD_NOT_IN_HAND"
  ELSE LET p == parseCard(card)
       IN IF ~p.ok THEN "BAD_CARD"
          ELSE IF p.rank \notin attackRanksOnly(g.table) THEN "RANK_MUST_MATCH_ATTACK"
          ELSE "OK"

(* ------------------------------ handlers ------------------------------ *)
\* A handler's outcome: code "OK" with the mutated game, or the error code it
\* passes to sendErrTo with the game as it leaves it.

Reject(g, code) == [code |-> code, game |-> g]
Accept(g) == [code |-> "OK", game |-> g]

onAttack(g, tgId, card, now) ==
  IF g.phase # "playing" THEN Reject(g, "GAME_NOT_PLAYING")
  ELSE LET v == validateAttack(g, tgId, card)
       IN IF v # "OK" THEN Reject(g, v)
          ELSE Accept([g EXCEPT !.hands[tgId] = removeCard(g.hands[tgId], card),
                                !.table = Append(g.table, [a |-> card, d |-> NoCard]),
                                !.updatedAt = now])

\* an onDefend without the takeDeclared check
onDefendAfterTake(g, tgId, attackIndex, card, now) ==
  IF g.phase # "playing" THEN Reject(g, "GAME_NOT_PLAYING")
  ELSE IF tgId # g.defenderId THEN Reject(g, "ONLY_DEFENDER_CAN_DEFEND")
  ELSE IF ~attackIndex.isInt THEN Reject(g, "BAD_ATTACK_INDEX")
  ELSE LET idx == attackIndex.v
           v == validateDefend(g, card, idx)
       IN IF v # "OK" THEN Reject(g, v)
          ELSE Accept([g EXCEPT !.hands[g.defenderId] = removeCard(g.hands[g.defenderId], card),
                                !.table[idx + 1].d = card,
                                !.updatedAt = now])

\* attackIndex is Number(msg.attackIndex): [isInt |-> TRUE, v |-> n] for an
\* integer n, [isInt |-> FALSE, v |-> 0] for NaN and every non-integer
onDefend(g, tgId, attackIndex, card, now) ==
  IF g.phase # "playing" THEN Reject(g, "GAME_NOT_PLAYING")
  ELSE IF tgId # g.defenderId THEN Reject(g, "ONLY_DEFENDER_CAN_DEFEND")
  ELSE IF g.takeDeclared THEN Reject(g, "TAKE_ALREADY_DECLARED")
  ELSE IF ~attackIndex.isInt THEN Reject(g, "BAD_ATTACK_INDEX")
  ELSE LET idx == attackIndex.v
           v == validateDefend(g, card, idx)
       IN IF v # "OK" THEN Reject(g, v)
          ELSE Accept([g EXCEPT !.hands[g.defenderId] = removeCard(g.hands[g.defenderId], card),
                                !.table[idx + 1].d = card,
                                !.updatedAt = now])

onTransfer(g, tgId, card, now) ==
  IF g.phase # "playing" THEN Reject(g, "GAME_NOT_PLAYING")
  ELSE IF tgId # g.defenderId THEN Reject(g, "ONLY_DEFENDER_CAN_TRANSFER")
  ELSE LET v == validateTransfer(g, card)
       IN IF v # "OK" THEN Reject(g, v)
          ELSE LET oldDef == g.defenderId
                   newDef == nextActiveId(g.order, g.active, oldDef)
                   hand2 == removeCard(g.hands[oldDef], card)
                   hands2 == [g.hands EXCEPT ![oldDef] = hand2]
               IN Accept([g EXCEPT !.hands = hands2,
                                   !.table = Append(g.table, [a |-> card, d |-> NoCard]),
                                   !.attackerId = oldDef,
                                   !.defenderId = newDef,
                                   !.roundLimit = Len(hands2[newDef]),
                                   !.passed = <<>>,
                                   !.takeDeclared = FALSE,
                                   !.updatedAt = now])

\* an onTake that closes the table: nothing can be thrown in after it
onTakeClosesTable(g, tgId, now) ==
  IF g.phase # "playing" THEN Reject(g, "GAME_NOT_PLAYING")
  ELSE IF tgId # g.defenderId THEN Reject(g, "ONLY_DEFENDER_CAN_TAKE")
  ELSE IF Len(g.table) = 0 THEN Reject(g, "NOTHING_ON_TABLE")
  ELSE Accept([g EXCEPT !.takeDeclared = TRUE, !.passed = <<>>,
                        !.roundLimit = Len(g.table), !.updatedAt = now])

\* an onTake that stamps the game before it looks at the phase
onTakeStampsFirst(g, tgId, now) ==
  IF g.phase # "playing" THEN Reject([g EXCEPT !.updatedAt = now], "GAME_NOT_PLAYING")
  ELSE IF tgId # g.defenderId THEN Reject(g, "ONLY_DEFENDER_CAN_TAKE")
  ELSE IF Len(g.table) = 0 THEN Reject(g, "NOTHING_ON_TABLE")
  ELSE Accept([g EXCEPT !.takeDeclared = TRUE, !.passed = <<>>, !.updatedAt = now])

onTake(g, tgId, now) ==
  IF g.phase # "playing" THEN Reject(g, "GAME_NOT_PLAYING")
  ELSE IF tgId # g.defenderId THEN Reject(g, "ONLY_DEFENDER_CAN_TAKE")
  ELSE IF Len(g.table) = 0 THEN Reject(g, "NOTHING_ON_TABLE")
  ELSE Accept([g EXCEPT !.takeDeclared = TRUE, !.passed = <<>>, !.updatedAt = now])

\* an onPass that leaves the resolution of the round to a later event
onPassKeepsRound(g, tgId, now) ==
  IF g.phase # "playing" THEN Reject(g, "GAME_NOT_PLAYING")
  ELSE IF tgId = g.defenderId THEN Reject(g, "DEFENDER_CANNOT_PASS")
  ELSE IF Len(g.table) = 0 THEN Reject(g, "NOTHING_ON_TABLE")
  ELSE Accept([g EXCEPT !.passed = IF Includes(g.passed, tgId) THEN g.passed
                                   ELSE Append(g.passed, tgId),
                        !.updatedAt = now])

onPass(g, tgId, now) ==
  IF g.phase # "playing" THEN Reject(g, "GAME_NOT_PLAYING")
  ELSE IF tgId = g.defenderId THEN Reject(g, "DEFENDER_CANNOT_PASS")
  ELSE IF Len(g.table) = 0 THEN Reject(g, "NOTHING_ON_TABLE")
  ELSE LET g1 == [g EXCEPT !.passed = IF Includes(g.passed, tgId) THEN g.passed
                                      ELSE Append(g.passed, tgId),
                           !.updatedAt = now]
           attackers == listAttackers(g1.order, g1.active, g1.defenderId)
           allPassed == \A i \in DOMAIN attackers : Includes(g1.passed, attackers[i])
       IN IF g1.takeDeclared /\ allPassed THEN Accept(endRoundTake(g1, now))
          ELSE Accept(g1)

onBeat(g, tgId, now) ==
  IF g.phase # "playing" THEN Reject(g, "GAME_NOT_PLAYING")
  ELSE IF tgId # g.defenderId THEN Reject(g, "ONLY_DEFENDER_CAN_BEAT")
  ELSE IF ~isFullyDefended(g.table) THEN Reject(g, "NOT_FULLY_DEFENDED")
  ELSE LET attackers == listAttackers(g.order, g.active, g.defenderId)
       IN IF ~(\A i \in DOMAIN attackers : Includes(g.passed, attackers[i]))
            THEN Reject(g, "ATTACKERS_NOT_PASSED")
          ELSE Accept(endRoundBeat(g, now))

(* ------------------------------- the deal ----------------------------- *)

\* the hands after `for i < 6: for pid of order: c = deck.pop(); if (c) push`
RECURSIVE dealFrom(_, _, _, _)
dealFrom(order, deck, hands, k) ==
  IF k >= HandSize * Len(order) THEN [deck |-> deck, hands |-> hands]
  ELSE IF deck = <<>> THEN dealFrom(order, deck, hands, k + 1)
  ELSE dealFrom(order, SubSeq(deck, 1, Len(deck) - 1),
                [hands EXCEPT ![order[(k % Len(order)) + 1]] =
                                Append(hands[order[(k % Len(order)) + 1]], deck[Len(deck)])],
                k + 1)

\* the player of order with the lowest trump, the first of them on a tie
RECURSIVE firstAttackerFrom(_, _, _, _, _)
RECURSIVE firstAttackerNext(_, _, _, _, _, _)
firstAttackerNext(order, hands, trumpSuit, best, bestId, r) ==
  IF r.ok /\ (~best.ok \/ r.rank < best.rank)
    THEN firstAttackerFrom(Tail(order), hands, trumpSuit, r, Head(order))
    ELSE firstAttackerFrom(Tail(order), hands, trumpSuit, best, bestId)

firstAttackerFrom(order, hands, trumpSuit, best, bestId) ==
  IF order = <<>> THEN bestId
  ELSE firstAttackerNext(order, hands, trumpSuit, best, bestId,
                         lowestTrumpRank(hands[Head(order)], trumpSuit))

\* the GameState literal of initGame
newGame(roomId, cfg, order, deck, trumpCard, hands, attackerId, defenderId, now) ==
  [roomId |-> roomId,
   config |-> cfg,
   phase |-> "playing",
   order |-> order,
   active |-> [id \in Range(order) |-> TRUE],
   deck |-> deck,
   trumpSuit |-> parseCard(trumpCard).suit,
   trumpCard |-> trumpCard,
   hands |-> hands,
   table |-> <<>>,
   discard |-> <<>>,
   attackerId |-> attackerId,
   defenderId |-> defenderId,
   roundLimit |-> Len(hands[defenderId]),
   passed |-> <<>>,
   takeDeclared |-> FALSE,
   loser |-> NoId,
   updatedAt |-> now]

\* attackerId = bestId if there is one, else order[0]; defenderId after it
seatRoles(roomId, cfg, order, deck, trumpCard, hands, bestId, now) ==
  newGame(roomId, cfg, order, deck, trumpCard, hands,
          IF bestId # NoId THEN bestId ELSE order[1],
          nextActiveId(order, [id \in Range(order) |-> TRUE],
                       IF bestId # NoId THEN bestId ELSE order[1]),
          now)

\* the sorted hands and the choice of the first attacker
dealtGame(roomId, cfg, order, deck, trumpCard, hands, now) ==
  seatRoles(roomId, cfg, order, deck, trumpCard, hands,
            firstAttackerFrom(order, hands, parseCard(trumpCard).suit, [ok |-> FALSE], NoId),
            now)

sortHands(order, hands) == [id \in Range(order) |-> SortHand(hands[id])]

\* a deal that turns up the card at the draw end of the shuffled deck
dealGameTopTrump(roomId, cfg, order, deck0, dealt, now) ==
  dealtGame(roomId, cfg, order, dealt.deck, deck0[Len(deck0)], sortHands(order, dealt.hands), now)

\* the deal from the shuffled deck deck0, whose first card is the trump card
dealGame(roomId, cfg, order, deck0, dealt, now) ==
  dealtGame(roomId, cfg, order, dealt.deck, deck0[1], sortHands(order, dealt.hands), now)

shuffledGame(roomId, cfg, order, deck0, now) ==
  dealGame(roomId, cfg, order, deck0,
           dealFrom(order, deck0, [id \in Range(order) |-> <<>>], 0), now)

\* js is the sequence of Math.random() draws of shuffle
initGame(roomId, cfg, players, js, now) ==
  shuffledGame(roomId, cfg, SubSeq(players, 1, Min(cfg.maxPlayers, Len(players))),
               shuffle(createDeck(cfg.deckSize), js), now)

(* -------------------------------- views ------------------------------- *)

\* g.hands[id] || []
HandOf(g, id) == IF id \in DOMAIN g.hands THEN g.hands[id] ELSE <<>>

HasRankIn(hand, ranks) ==
  \E i \in DOMAIN hand : parseCard(hand[i]).ok /\ parseCard(hand[i]).rank \in ranks

NoRoom == [phase |-> "missing"]

buildStateForLeaky(g, tgId) ==
  IF g = NoRoom THEN [phase |-> "missing"]
  ELSE [phase |-> g.phase, you |-> tgId, yourHand |-> HandOf(g, tgId), others |-> g.hands]

buildStateFor(g, tgId) ==
  IF g = NoRoom THEN [phase |-> "missing"]
  ELSE
  LET youHand == HandOf(g, tgId)
      othersIds == SelectSeq(g.order, LAMBDA id : id # tgId)
      others == [i \in DOMAIN othersIds |->
                   [id |-> othersIds[i],
                    active |-> IsActive(g.active, othersIds[i]),
                    count |-> Len(HandOf(g, othersIds[i]))]]
      attackers == listAttackers(g.order, g.active, g.defenderId)
      needDefense == isNeedDefense(g.table)
      ranksOnTable == tableRanks(g.table)
      mine == g.phase = "playing" /\ IsActive(g.active, tgId)
      isDef == tgId = g.defenderId
      hasPassed == Includes(g.passed, tgId)
      allowed ==
        [attack |-> mine /\ ~isDef /\ ~hasPassed
                    /\ (IF Len(g.table) = 0 THEN tgId = g.attackerId
                        ELSE HasRankIn(youHand, ranksOnTable)),
         defend |-> mine /\ isDef /\ ~g.takeDeclared /\ needDefense,
         transfer |-> mine /\ isDef /\ ~g.takeDeclared
                      /\ g.config.mode = "perevodnoy"
                      /\ Len(g.table) > 0
                      /\ ~(\E i \in DOMAIN g.table : g.table[i].d # NoCard)
                      /\ HasRankIn(youHand, attackRanksOnly(g.table)),
         take |-> mine /\ isDef /\ ~g.takeDeclared /\ Len(g.table) > 0,
         beat |-> mine /\ isDef /\ isFullyDefended(g.table)
                  /\ \A i \in DOMAIN attackers : Includes(g.passed, attackers[i]),
         pass |-> mine /\ ~isDef /\ Len(g.table) > 0 /\ ~hasPassed]
  IN [roomId |-> g.roomId,
      phase |-> g.phase,
      config |-> g.config,
      players |-> g.order,
      you |-> tgId,
      attacker |-> g.attackerId,
      defender |-> g.defenderId,
      trumpSuit |-> g.trumpSuit,
      trumpCard |-> g.trumpCard,
      deckCount |-> Len(g.deck),
      yourHand |-> youHand,
      others |-> others,
      table |-> g.table,
      discardCount |-> Len(g.discard),
      takeDeclared |-> g.takeDeclared,
      passed |-> g.passed,
      allowed |-> allowed,
      updatedAt |-> g.updatedAt,
      loser |-> g.loser]

(* ------------------------------ the room ------------------------------ *)

VARIABLES
  loaded,     \* RoomDO.loaded
  room,       \* RoomDO.room: NoRoom (null) or the game of the RoomPersisted
  stored,     \* state.storage "room": NoRoom when the key is absent
  sent,       \* the frames the last handler sent
  clock,      \* the value the next Date.now() returns: one tick per request
  putFailed,  \* whether state.storage.put threw in the last handler
  pending,    \* the handlers suspended at `await this.persist()`, oldest first
  attach,     \* per accepted WebSocket its attachment: the tgId of its JOIN
  req,        \* the request the last step handled
  queue,      \* MatchmakerDO storage "queue": per key the waiting tg_ids
  match,      \* MatchmakerDO storage "match:<tgId>": the binding of a player
  inits,      \* the /init bodies the matchmaker has delivered to rooms
  reply,      \* the response of the matchmaker to its last request
  mmNow,      \* Date.now() of the matchmaker
  served      \* the number of requests the matchmaker has handled

mmVars == <<queue, match, inits, reply, mmNow, served>>

vars == <<loaded, room, stored, sent, clock, putFailed, pending, attach, req, mmVars>>

\* the WebSockets of the room, in the order of state.getWebSockets()
Sockets == <<"s1", "s2">>
Closed == "closed"
NoReq == [type |-> "none"]

\* what the gameplay handlers of a room leave alone when its frames are
\* handled one by one and taken by the tgId of their socket
beyondRoom == <<pending, attach, req, mmVars>>

\* the configurations players ask the matchmaker for, and the players
MmConfigs == {[mode |-> "podkidnoy", deckSize |-> 36, maxPlayers |-> 2],
              [mode |-> "perevodnoy", deckSize |-> 24, maxPlayers |-> 3]}
MmPlayers == {"p1", "p2", "p3"}

\* `${cfg.mode}:${cfg.deckSize}:${cfg.maxPlayers}`
keyOf(cfg) == <<cfg.mode, cfg.deckSize, cfg.maxPlayers>>

\* storage.get("match:" + tgId) of a player without a binding
NoMatch == [roomId |-> NoId]

\* a matchmaker that has handled no request
MmIdle ==
  /\ queue = [key \in {keyOf(cfg) : cfg \in MmConfigs} |-> <<>>]
  /\ match = [tgId \in MmPlayers |-> NoMatch]
  /\ inits = <<>>
  /\ reply = NoReq
  /\ mmNow = 0
  /\ served = 0

RoomId == "r1"
Players == <<"p1", "p2", "p3", "p4">>
Outsider == "x"

\* the players whose sockets send frames: the seated ones and one more player
\* with a valid session (JOIN attaches any verified tg_id)
Senders(g) == (IF g = NoRoom THEN {Players[1]} ELSE Range(g.order)) \cup {Outsider}

ErrorFrame(tgId, code) == [to |-> tgId, type |-> "ERROR", code |-> code]
\* broadcastStates: one STATE frame, buildStateFor(tgId), to every joined socket
StateFrames == [to |-> "joined", type |-> "STATE", code |-> "-"]
\* the response of fetch /init to the matchmaker: ok({ roomId })
InitResponse == [to |-> "matchmaker", type |-> "HTTP", code |-> "200"]

\* this.room once loadOnce has run
Mem == IF loaded THEN room ELSE stored

\* the storage after persist(): put("room", this.room) if this.room is set
persistDropped(rm, st) == st

persist(rm, st) == IF rm # NoRoom THEN rm ELSE st

\* the number of accepted TRANSFER events in a row that ends with the frame
\* being handled: a rejected frame leaves the run as it was, an accepted
\* TRANSFER extends it, every other accepted event ends it
ChainAfter(type, code) ==
  LET before == IF "chain" \in DOMAIN req THEN req.chain ELSE 0
  IN IF code # "OK" THEN before
     ELSE IF type = "TRANSFER" THEN before + 1
     ELSE 0

\* the frame of type msg.type from the socket of tgId, r being its handler's
\* outcome: sendErrTo and return, or persist() and broadcastStates()
Deliver(type, tgId, r) ==
  /\ loaded' = TRUE
  /\ clock' = clock + 1
  /\ putFailed' = FALSE
  /\ IF r.code # "OK"
       THEN /\ room' = r.game
            /\ sent' = <<ErrorFrame(tgId, r.code)>>
            /\ UNCHANGED stored
       ELSE /\ room' = r.game
            /\ stored' = persist(r.game, stored)
            /\ sent' = <<StateFrames>>
  /\ req' = [type |-> type, tgId |-> tgId, now |-> clock,
             chain |-> ChainAfter(type, r.code)]
  /\ UNCHANGED <<pending, attach, mmVars>>

\* persist() has no try/catch: when storage.put throws, the handler ends there,
\* after the mutation of this.room and before broadcastStates()
DeliverPutFails(r) ==
  /\ r.code = "OK"
  /\ loaded' = TRUE
  /\ clock' = clock + 1
  /\ putFailed' = TRUE
  /\ room' = r.game
  /\ sent' = <<>>
  /\ UNCHANGED stored
  /\ UNCHANGED beyondRoom

(* ------------------------------ the inputs ---------------------------- *)

Cfg(mode, deckSize, maxPlayers) == [mode |-> mode, deckSize |-> deckSize, maxPlayers |-> maxPlayers]

\* A recorded game: the config of a room, the Math.random() draws of its
\* shuffle, and the events <<type, tgId, card, attackIndex>> its players sent
\* (all accepted). cuts are the lengths of the prefixes after which the room
\* actor was evicted: the storage then holds the snapshot written by the last
\* event of the prefix, which the next incarnation of the actor loads.

Tape24a ==
  <<0, 18, 6, 19, 12, 12, 1, 3, 7, 4, 2, 2, 0, 2, 6, 3, 7, 4, 0, 2, 2, 2, 0>>

Tape24b ==
  <<20, 15, 10, 5, 0, 0, 14, 9, 4, 5, 0, 0, 8, 3, 4, 5, 0, 0, 2, 3, 3, 2, 0>>

Tape36a ==
  <<32, 25, 18, 11, 4, 18, 26, 19, 12, 5, 25, 12, 20, 13, 6, 11, 19, 6, 14, 7, 0, 5, 13, 0, 8, 1, 6, 8, 7, 6, 2, 4, 0, 2, 1>>

GameA ==
  [cfg |-> Cfg("perevodnoy", 24, 2),
   js |-> Tape24a,
   cuts |-> {1, 2},
   script |-> <<
     <<"ATTACK", "p1", <<"S", "9">>, 0>>,
     <<"ATTACK", "p1", <<"H", "9">>, 0>> >>]

GameB ==
  [cfg |-> Cfg("podkidnoy", 24, 3),
   js |-> Tape24b,
   cuts |-> {2},
   script |-> <<
     <<"ATTACK", "p2", <<"C", "9">>, 0>>,
     <<"TAKE", "p3", NoCard, 0>> >>]

GameC ==
  [cfg |-> Cfg("podkidnoy", 24, 2),
   js |-> Tape24b,
   cuts |-> {4, 14, 23, 25, 28, 30},
   script |-> <<
     <<"ATTACK", "p1", <<"C", "J">>, 0>>,
     <<"DEFEND", "p2", <<"C", "A">>, 0>>,
     <<"ATTACK", "p1", <<"D", "J">>, 0>>,
     <<"DEFEND", "p2", <<"D", "Q">>, 1>>,
     <<"PASS", "p1", NoCard, 0>>,
     <<"BEAT", "p2", NoCard, 0>>,
     <<"ATTACK", "p2", <<"C", "10">>, 0>>,
     <<"DEFEND", "p1", <<"S", "K">>, 0>>,
     <<"ATTACK", "p2", <<"C", "K">>, 0>>,
     <<"DEFEND", "p1", <<"S", "9">>, 1>>,
     <<"ATTACK", "p2", <<"D", "10">>, 0>>,
     <<"DEFEND", "p1", <<"S", "Q">>, 2>>,
     <<"ATTACK", "p2", <<"H", "Q">>, 0>>,
     <<"DEFEND", "p1", <<"H", "K">>, 3>>,
     <<"PASS", "p2", NoCard, 0>>,
     <<"BEAT", "p1", NoCard, 0>>,
     <<"ATTACK", "p1", <<"C", "9">>, 0>>,
     <<"DEFEND", "p2", <<"S", "A">>, 0>>,
     <<"ATTACK", "p1", <<"H", "A">>, 0>>,
     <<"DEFEND", "p2", <<"S", "J">>, 1>>,
     <<"ATTACK", "p1", <<"H", "9">>, 0>>,
     <<"DEFEND", "p2", <<"H", "10">>, 2>>,
     <<"ATTACK", "p1", <<"S", "10">>, 0>>,
     <<"TAKE", "p2", NoCard, 0>>,
     <<"ATTACK", "p1", <<"H", "J">>, 0>>,
     <<"PASS", "p1", NoCard, 0>>,
     <<"ATTACK", "p1", <<"D", "K">>, 0>>,
     <<"DEFEND", "p2", <<"S", "A">>, 0>>,
     <<"PASS", "p1", NoCard, 0>>,
     <<"BEAT", "p2", NoCard, 0>> >>]

GameD ==
  [cfg |-> Cfg("perevodnoy", 24, 3),
   js |-> Tape24b,
   cuts |-> {5, 21, 22, 27, 29, 30, 33},
   script |-> <<
     <<"ATTACK", "p2", <<"D", "Q">>, 0>>,
     <<"DEFEND", "p3", <<"S", "K">>, 0>>,
     <<"ATTACK", "p2", <<"H", "Q">>, 0>>,
     <<"DEFEND", "p3", <<"H", "K">>, 1>>,
     <<"PASS", "p1", NoCard, 0>>,
     <<"PASS", "p2", NoCard, 0>>,
     <<"BEAT", "p3", NoCard, 0>>,
     <<"ATTACK", "p3", <<"D", "10">>, 0>>,
     <<"DEFEND", "p1", <<"D", "J">>, 0>>,
     <<"ATTACK", "p2", <<"S", "J">>, 0>>,
     <<"DEFEND", "p1", <<"S", "A">>, 1>>,
     <<"PASS", "p2", NoCard, 0>>,
     <<"PASS", "p3", NoCard, 0>>,
     <<"BEAT", "p1", NoCard, 0>>,
     <<"ATTACK", "p1", <<"C", "A">>, 0>>,
     <<"DEFEND", "p2", <<"S", "9">>, 0>>,
     <<"ATTACK", "p1", <<"D", "A">>, 0>>,
     <<"DEFEND", "p2", <<"S", "Q">>, 1>>,
     <<"PASS", "p1", NoCard, 0>>,
     <<"PASS", "p3", NoCard, 0>>,
     <<"BEAT", "p2", NoCard, 0>>,
     <<"ATTACK", "p2", <<"D", "9">>, 0>>,
     <<"TRANSFER", "p3", <<"H", "9">>, 0>>,
     <<"DEFEND", "p1", <<"S", "10">>, 0>>,
     <<"DEFEND", "p1", <<"H", "J">>, 1>>,
     <<"ATTACK", "p2", <<"C", "9">>, 0>>,
     <<"DEFEND", "p1", <<"C", "J">>, 2>>,
     <<"PASS", "p2", NoCard, 0>>,
     <<"PASS", "p3", NoCard, 0>>,
     <<"BEAT", "p1", NoCard, 0>>,
     <<"ATTACK", "p2", <<"C", "Q">>, 0>>,
     <<"DEFEND", "p3", <<"C", "K">>, 0>>,
     <<"PASS", "p2", NoCard, 0>>,
     <<"BEAT", "p3", NoCard, 0>> >>]

GameE ==
  [cfg |-> Cfg("podkidnoy", 24, 4),
   js |-> Tape24b,
   cuts |-> {10, 24, 27, 29, 33, 37},
   script |-> <<
     <<"ATTACK", "p1", <<"S", "9">>, 0>>,
     <<"DEFEND", "p2", <<"S", "Q">>, 0>>,
     <<"ATTACK", "p1", <<"D", "9">>, 0>>,
     <<"DEFEND", "p2", <<"D", "Q">>, 1>>,
     <<"ATTACK", "p3", <<"C", "9">>, 0>>,
     <<"DEFEND", "p2", <<"C", "A">>, 2>>,
     <<"ATTACK", "p3", <<"H", "9">>, 0>>,
     <<"DEFEND", "p2", <<"H", "A">>, 3>>,
     <<"PASS", "p1", NoCard, 0>>,
     <<"PASS", "p3", NoCard, 0>>,
     <<"PASS", "p4", NoCard, 0>>,
     <<"BEAT", "p2", NoCard, 0>>,
     <<"ATTACK", "p2", <<"H", "10">>, 0>>,
     <<"DEFEND", "p3", <<"S", "J">>, 0>>,
     <<"ATTACK", "p1", <<"C", "J">>, 0>>,
     <<"DEFEND", "p3", <<"C", "K">>, 1>>,
     <<"PASS", "p1", NoCard, 0>>,
     <<"PASS", "p2", NoCard, 0>>,
     <<"PASS", "p4", NoCard, 0>>,
     <<"BEAT", "p3", NoCard, 0>>,
     <<"ATTACK", "p3", <<"D", "J">>, 0>>,
     <<"DEFEND", "p4", <<"D", "A">>, 0>>,
     <<"ATTACK", "p1", <<"H", "J">>, 0>>,
     <<"DEFEND", "p4", <<"S", "10">>, 1>>,
     <<"ATTACK", "p2", <<"C", "10">>, 0>>,
     <<"TAKE", "p4", NoCard, 0>>,
     <<"PASS", "p1", NoCard, 0>>,
     <<"PASS", "p2", NoCard, 0>>,
     <<"PASS", "p3", NoCard, 0>>,
     <<"ATTACK", "p3", <<"H", "K">>, 0>>,
     <<"DEFEND", "p1", <<"S", "K">>, 0>>,
     <<"PASS", "p3", NoCard, 0>>,
     <<"PASS", "p4", NoCard, 0>>,
     <<"BEAT", "p1", NoCard, 0>>,
     <<"ATTACK", "p1", <<"D", "K">>, 0>>,
     <<"DEFEND", "p4", <<"S", "10">>, 0>>,
     <<"PASS", "p1", NoCard, 0>>,
     <<"BEAT", "p4", NoCard, 0>> >>]

GameF ==
  [cfg |-> Cfg("perevodnoy", 24, 3),
   js |-> Tape24b,
   cuts |-> {39, 40},
   script |-> <<
     <<"ATTACK", "p2", <<"D", "Q">>, 0>>,
     <<"DEFEND", "p3", <<"S", "K">>, 0>>,
     <<"PASS", "p1", NoCard, 0>>,
     <<"PASS", "p2", NoCard, 0>>,
     <<"BEAT", "p3", NoCard, 0>>,
     <<"ATTACK", "p3", <<"H", "K">>, 0>>,
     <<"DEFEND", "p1", <<"S", "A">>, 0>>,
     <<"PASS", "p2", NoCard, 0>>,
     <<"PASS", "p3", NoCard, 0>>,
     <<"BEAT", "p1", NoCard, 0>>,
     <<"ATTACK", "p1", <<"H", "A">>, 0>>,
     <<"DEFEND", "p2", <<"S", "J">>, 0>>,
     <<"ATTACK", "p1", <<"D", "J">>, 0>>,
     <<"DEFEND", "p2", <<"S", "Q">>, 1>>,
     <<"PASS", "p1", NoCard, 0>>,
     <<"PASS", "p3", NoCard, 0>>,
     <<"BEAT", "p2", NoCard, 0>>,
     <<"ATTACK", "p2", <<"H", "Q">>, 0>>,
     <<"TRANSFER", "p3", <<"C", "Q">>, 0>>,
     <<"DEFEND", "p1", <<"S", "10">>, 0>>,
     <<"DEFEND", "p1", <<"C", "A">>, 1>>,
     <<"ATTACK", "p3", <<"H", "10">>, 0>>,
     <<"DEFEND", "p1", <<"H", "J">>, 2>>,
     <<"ATTACK", "p3", <<"C", "10">>, 0>>,
     <<"DEFEND", "p1", <<"C", "J">>, 3>>,
     <<"ATTACK", "p3", <<"D", "10">>, 0>>,
     <<"DEFEND", "p1", <<"D", "A">>, 4>>,
     <<"PASS", "p2", NoCard, 0>>,
     <<"PASS", "p3", NoCard, 0>>,
     <<"BEAT", "p1", NoCard, 0>>,
     <<"ATTACK", "p1", <<"H", "9">>, 0>>,
     <<"DEFEND", "p2", <<"S", "9">>, 0>>,
     <<"PASS", "p1", NoCard, 0>>,
     <<"PASS", "p3", NoCard, 0>>,
     <<"BEAT", "p2", NoCard, 0>>,
     <<"ATTACK", "p2", <<"D", "9">>, 0>>,
     <<"DEFEND", "p3", <<"D", "K">>, 0>>,
     <<"ATTACK", "p2", <<"C", "9">>, 0>>,
     <<"DEFEND", "p3", <<"C", "K">>, 1>>,
     <<"PASS", "p2", NoCard, 0>>,
     <<"BEAT", "p3", NoCard, 0>> >>]

GameG ==
  [cfg |-> Cfg("perevodnoy", 36, 2),
   js |-> Tape36a,
   cuts |-> {4, 7, 19, 20},
   script |-> <<
     <<"ATTACK", "p1", <<"S", "10">>, 0>>,
     <<"DEFEND", "p2", <<"S", "J">>, 0>>,
     <<"ATTACK", "p1", <<"C", "J">>, 0>>,
     <<"DEFEND", "p2", <<"C", "Q">>, 1>>,
     <<"PASS", "p1", NoCard, 0>>,
     <<"BEAT", "p2", NoCard, 0>>,
     <<"ATTACK", "p2", <<"D", "K">>, 0>>,
     <<"TRANSFER", "p1", <<"C", "K">>, 0>>,
     <<"DEFEND", "p2", <<"S", "Q">>, 0>>,
     <<"DEFEND", "p2", <<"C", "A">>, 1>>,
     <<"PASS", "p1", NoCard, 0>>,
     <<"BEAT", "p2", NoCard, 0>>,
     <<"ATTACK", "p2", <<"D", "9">>, 0>>,
     <<"TRANSFER", "p1", <<"H", "9">>, 0>>,
     <<"DEFEND", "p2", <<"S", "K">>, 0>>,
     <<"DEFEND", "p2", <<"H", "J">>, 1>>,
     <<"PASS", "p1", NoCard, 0>>,
     <<"BEAT", "p2", NoCard, 0>>,
     <<"ATTACK", "p2", <<"C", "8">>, 0>>,
     <<"TRANSFER", "p1", <<"D", "8">>, 0>>,
     <<"TRANSFER", "p2", <<"H", "8">>, 0>>,
     <<"DEFEND", "p1", <<"S", "6">>, 0>>,
     <<"DEFEND", "p1", <<"D", "A">>, 1>>,
     <<"DEFEND", "p1", <<"H", "10">>, 2>> >>]

GameH ==
  [cfg |-> Cfg("podkidnoy", 36, 3),
   js |-> Tape36a,
   cuts |-> {3, 17, 20},
   script |-> <<
     <<"ATTACK", "p2", <<"C", "K">>, 0>>,
     <<"DEFEND", "p3", <<"S", "Q">>, 0>>,
     <<"PASS", "p1", NoCard, 0>>,
     <<"PASS", "p2", NoCard, 0>>,
     <<"BEAT", "p3", NoCard, 0>>,
     <<"ATTACK", "p3", <<"D", "6">>, 0>>,
     <<"DEFEND", "p1", <<"D", "A">>, 0>>,
     <<"PASS", "p2", NoCard, 0>>,
     <<"PASS", "p3", NoCard, 0>>,
     <<"BEAT", "p1", NoCard, 0>>,
     <<"ATTACK", "p1", <<"D", "8">>, 0>>,
     <<"DEFEND", "p2", <<"S", "10">>, 0>>,
     <<"PASS", "p1", NoCard, 0>>,
     <<"PASS", "p3", NoCard, 0>>,
     <<"BEAT", "p2", NoCard, 0>>,
     <<"ATTACK", "p2", <<"H", "Q">>, 0>>,
     <<"DEFEND", "p3", <<"S", "K">>, 0>>,
     <<"ATTACK", "p2", <<"D", "K">>, 0>>,
     <<"DEFEND", "p3", <<"S", "6">>, 1>>,
     <<"PASS", "p1", NoCard, 0>>,
     <<"PASS", "p2", NoCard, 0>>,
     <<"BEAT", "p3", NoCard, 0>>,
     <<"ATTACK", "p3", <<"C", "6">>, 0>>,
     <<"DEFEND", "p1", <<"C", "A">>, 0>> >>]

GameI ==
  [cfg |-> Cfg("perevodnoy", 36, 4),
   js |-> Tape36a,
   cuts |-> {9, 11, 14, 15, 22},
   script |-> <<
     <<"ATTACK", "p1", <<"S", "10">>, 0>>,
     <<"DEFEND", "p2", <<"S", "J">>, 0>>,
     <<"PASS", "p1", NoCard, 0>>,
     <<"PASS", "p3", NoCard, 0>>,
     <<"PASS", "p4", NoCard, 0>>,
     <<"BEAT", "p2", NoCard, 0>>,
     <<"ATTACK", "p2", <<"C", "Q">>, 0>>,
     <<"DEFEND", "p3", <<"S", "Q">>, 0>>,
     <<"ATTACK", "p4", <<"H", "Q">>, 0>>,
     <<"TAKE", "p3", NoCard, 0>>,
     <<"PASS", "p1", NoCard, 0>>,
     <<"PASS", "p2", NoCard, 0>>,
     <<"PASS", "p4", NoCard, 0>>,
     <<"ATTACK", "p2", <<"C", "8">>, 0>>,
     <<"TRANSFER", "p4", <<"H", "8">>, 0>>,
     <<"TRANSFER", "p1", <<"D", "8">>, 0>>,
     <<"DEFEND", "p2", <<"S", "7">>, 0>>,
     <<"DEFEND", "p2", <<"H", "10">>, 1>>,
     <<"DEFEND", "p2", <<"D", "9">>, 2>>,
     <<"ATTACK", "p1", <<"C", "7">>, 0>>,
     <<"DEFEND", "p2", <<"C", "9">>, 3>>,
     <<"PASS", "p1", NoCard, 0>>,
     <<"PASS", "p3", NoCard, 0>>,
     <<"PASS", "p4", NoCard, 0>> >>]

\* A game of four in which p4, seated after the defender of the first two
\* rounds, throws in all six cards of the hand and is never in the draw order;
\* the second round ends with p3 taking, while the deck still holds cards.
GameJ ==
  [cfg |-> Cfg("podkidnoy", 36, 4),
   js |-> <<0, 1, 2, 9, 13, 11, 3, 10, 18, 12, 14, 20, 19, 22, 15, 15, 18, 18, 15, 13, 10, 9, 2, 2, 3, 7, 4, 5, 6, 4, 1, 0, 3, 2, 0>>,
   cuts |-> {21},
   script |-> <<
     <<"ATTACK", "p1", <<"S", "6">>, 0>>,
     <<"DEFEND", "p2", <<"S", "7">>, 0>>,
     <<"ATTACK", "p4", <<"H", "6">>, 0>>,
     <<"DEFEND", "p2", <<"H", "8">>, 1>>,
     <<"ATTACK", "p4", <<"H", "7">>, 0>>,
     <<"DEFEND", "p2", <<"H", "9">>, 2>>,
     <<"ATTACK", "p4", <<"D", "8">>, 0>>,
     <<"DEFEND", "p2", <<"D", "10">>, 3>>,
     <<"ATTACK", "p4", <<"D", "9">>, 0>>,
     <<"DEFEND", "p2", <<"D", "J">>, 4>>,
     <<"ATTACK", "p4", <<"C", "10">>, 0>>,
     <<"DEFEND", "p2", <<"C", "J">>, 5>>,
     <<"PASS", "p1", NoCard, 0>>,
     <<"PASS", "p3", NoCard, 0>>,
     <<"PASS", "p4", NoCard, 0>>,
     <<"BEAT", "p2", NoCard, 0>>,
     <<"ATTACK", "p2", <<"S", "K">>, 0>>,
     <<"ATTACK", "p4", <<"H", "K">>, 0>>,
     <<"TAKE", "p3", NoCard, 0>>,
     <<"PASS", "p1", NoCard, 0>>,
     <<"PASS", "p2", NoCard, 0>>,
     <<"PASS", "p4", NoCard, 0>> >>]

Games == {GameA, GameB, GameC, GameD, GameE, GameF, GameG, GameH, GameI, GameJ}

\* the rooms the matchmaker commissions
Deals == {[cfg |-> game.cfg, js |-> game.js] : game \in Games}

IntIdx(i) == [isInt |-> TRUE, v |-> i]

\* the dispatch of webSocketMessage on msg.type, as a function of the game
Handle(g, ev, now) ==
  CASE ev[1] = "ATTACK" -> onAttack(g, ev[2], ev[3], now)
    [] ev[1] = "DEFEND" -> onDefend(g, ev[2], IntIdx(ev[4]), ev[3], now)
    [] ev[1] = "TRANSFER" -> onTransfer(g, ev[2], ev[3], now)
    [] ev[1] = "TAKE" -> onTake(g, ev[2], now)
    [] ev[1] = "PASS" -> onPass(g, ev[2], now)
    [] ev[1] = "BEAT" -> onBeat(g, ev[2], now)

\* the game after the events k..upto of script, the k-th handled at time now
RECURSIVE ReplayFrom(_, _, _, _, _)
RECURSIVE ReplayNext(_, _, _, _, _)
ReplayNext(r, script, k, upto, now) ==
  IF r.code = "OK" THEN ReplayFrom(r.game, script, k + 1, upto, now + 1) ELSE NoRoom

ReplayFrom(g, script, k, upto, now) ==
  IF k > upto THEN g
  ELSE ReplayNext(Handle(g, script[k], now), script, k, upto, now)

\* the snapshot in storage after the first upto events of a recorded game;
\* the events lie in the past of the actor that loads it (its clock starts at 0)
Replay(game, upto) ==
  ReplayFrom(initGame(RoomId, game.cfg, Players, game.js, 0 - (upto + 1)),
             game.script, 1, upto, 0 - upto)

Snapshots == UNION {{Replay(game, k) : k \in game.cuts} : game \in Games}

\* card strings that are no card: the empty string, and a rank below 6
BadTokens == {NoCard, <<"S", "5">>}

\* the cards a player's frames name: the own hand, the trump card, bad tokens
CardInputs(g, tgId) == Range(HandOf(g, tgId)) \cup {g.trumpCard} \cup BadTokens

\* Number(msg.attackIndex): every index of the table, one past it, -1, NaN
IndexInputs(g) ==
  {[isInt |-> TRUE, v |-> i] : i \in -1 .. Len(g.table)} \cup {[isInt |-> FALSE, v |-> 0]}

(* ------------------------------ the actions --------------------------- *)

\* fetch /init, sent once by the matchmaker for a room id it has just minted
RoomInit ==
  /\ clock < MaxClock
  /\ Mem = NoRoom
  /\ \E deal \in Deals :
       LET g == initGame(RoomId, deal.cfg, Players, deal.js, clock)
       IN /\ room' = g
          /\ stored' = persist(g, stored)
  /\ loaded' = TRUE
  /\ sent' = <<InitResponse>>
  /\ clock' = clock + 1
  /\ putFailed' = FALSE
  /\ UNCHANGED beyondRoom

\* a gameplay frame while this.room is null
NotReady ==
  /\ clock < MaxClock
  /\ Mem = NoRoom
  /\ \E tgId \in Senders(Mem) : sent' = <<ErrorFrame(tgId, "ROOM_NOT_READY")>>
  /\ loaded' = TRUE
  /\ room' = Mem
  /\ clock' = clock + 1
  /\ putFailed' = FALSE
  /\ UNCHANGED stored
  /\ UNCHANGED beyondRoom

\* a frame that is no JSON, or of an unknown type
Malformed ==
  /\ clock < MaxClock
  /\ \E tgId \in Senders(Mem), code \in {"BAD_JSON", "NOT_JOINED", "UNKNOWN_MSG"} :
       /\ code = "UNKNOWN_MSG" => Mem # NoRoom
       /\ sent' = <<ErrorFrame(tgId, code)>>
  /\ loaded' = TRUE
  /\ room' = Mem
  /\ clock' = clock + 1
  /\ putFailed' = FALSE
  /\ UNCHANGED stored
  /\ UNCHANGED beyondRoom

\* the frame `null`: JSON.parse returns null and reading msg.type throws a
\* TypeError that nothing catches; the handler ends without sending a frame
NullFrame ==
  /\ clock < MaxClock
  /\ loaded' = TRUE
  /\ room' = Mem
  /\ sent' = <<>>
  /\ clock' = clock + 1
  /\ putFailed' = FALSE
  /\ UNCHANGED stored
  /\ UNCHANGED beyondRoom

Attack ==
  /\ clock < MaxClock
  /\ Mem # NoRoom
  /\ \E tgId \in Senders(Mem) : \E card \in CardInputs(Mem, tgId) :
       Deliver("ATTACK", tgId, onAttack(Mem, tgId, card, clock))

Defend ==
  /\ clock < MaxClock
  /\ Mem # NoRoom
  /\ \E tgId \in Senders(Mem) : \E card \in CardInputs(Mem, tgId) : \E idx \in IndexInputs(Mem) :
       Deliver("DEFEND", tgId, onDefend(Mem, tgId, idx, card, clock))

Transfer ==
  /\ clock < MaxClock
  /\ Mem # NoRoom
  /\ \E tgId \in Senders(Mem) : \E card \in CardInputs(Mem, tgId) :
       Deliver("TRANSFER", tgId, onTransfer(Mem, tgId, card, clock))

Take ==
  /\ clock < MaxClock
  /\ Mem # NoRoom
  /\ \E tgId \in Senders(Mem) : Deliver("TAKE", tgId, onTake(Mem, tgId, clock))

Pass ==
  /\ clock < MaxClock
  /\ Mem # NoRoom
  /\ \E tgId \in Senders(Mem) : Deliver("PASS", tgId, onPass(Mem, tgId, clock))

Beat ==
  /\ clock < MaxClock
  /\ Mem # NoRoom
  /\ \E tgId \in Senders(Mem) : Deliver("BEAT", tgId, onBeat(Mem, tgId, clock))

\* the actor is evicted from memory or restarted: the next event finds a newly
\* constructed RoomDO; the storage and the sockets' attachments stay
Evict ==
  /\ loaded
  /\ loaded' = FALSE
  /\ room' = NoRoom
  /\ sent' = <<>>
  /\ putFailed' = FALSE
  /\ UNCHANGED <<stored, clock, beyondRoom>>

\* a freshly constructed actor: nothing loaded, the storage empty or holding
\* the snapshot an earlier incarnation wrote
Init ==
  /\ loaded = FALSE
  /\ room = NoRoom
  /\ stored \in {NoRoom} \cup Snapshots
  /\ sent = <<>>
  /\ clock = 0
  /\ putFailed = FALSE
  /\ pending = <<>>
  /\ attach = [s \in Range(Sockets) |-> Closed]
  /\ req = NoReq
  /\ MmIdle

Next ==
  \/ RoomInit
  \/ NotReady
  \/ Malformed
  \/ NullFrame
  \/ Attack
  \/ Defend
  \/ Transfer
  \/ Take
  \/ Pass
  \/ Beat
  \/ Evict

Spec == Init /\ [][Next]_vars

\* the cards of the hands of the players ids, hand after hand
RECURSIVE handCards(_, _)
handCards(g, ids) ==
  IF ids = <<>> THEN <<>> ELSE g.hands[Head(ids)] \o handCards(g, Tail(ids))

(* ------------------------ players who play on ------------------------- *)
\* The seated players of a running game send only frames the room accepts,
\* all within one reading of Date.now(): the attacker opens a round, the
\* other attackers throw in or pass once, the defender defends, transfers,
\* declares TAKE once, or sends BEAT.  Whoever plays a card plays the first
\* card of the sorted hand that the room accepts.

\* the handler's outcome r is accepted: persist() and broadcastStates()
Played(r) ==
  /\ r.code = "OK"
  /\ loaded' = TRUE
  /\ room' = r.game
  /\ stored' = persist(r.game, stored)
  /\ sent' = <<StateFrames>>
  /\ putFailed' = FALSE
  /\ UNCHANGED <<clock, beyondRoom>>

FairOpen ==
  /\ Mem # NoRoom /\ Mem.table = <<>>
  /\ \E tgId \in Range(Mem.order) : \E i \in DOMAIN HandOf(Mem, tgId) :
       /\ \A j \in 1 .. i - 1 : onAttack(Mem, tgId, HandOf(Mem, tgId)[j], clock).code # "OK"
       /\ Played(onAttack(Mem, tgId, HandOf(Mem, tgId)[i], clock))

FairThrowIn ==
  /\ Mem # NoRoom /\ Mem.table # <<>>
  /\ \E tgId \in Range(Mem.order) : \E i \in DOMAIN HandOf(Mem, tgId) :
       /\ \A j \in 1 .. i - 1 : onAttack(Mem, tgId, HandOf(Mem, tgId)[j], clock).code # "OK"
       /\ Played(onAttack(Mem, tgId, HandOf(Mem, tgId)[i], clock))

FairPass ==
  /\ Mem # NoRoom
  /\ \E tgId \in Range(Mem.order) :
       /\ IsActive(Mem.active, tgId) /\ ~Includes(Mem.passed, tgId)
       /\ Played(onPass(Mem, tgId, clock))

FairAnswer ==
  /\ Mem # NoRoom
  /\ \/ \E i \in 0 .. Len(Mem.table) - 1 : \E k \in DOMAIN HandOf(Mem, Mem.defenderId) :
          /\ \A j \in 1 .. k - 1 :
               onDefend(Mem, Mem.defenderId, IntIdx(i), HandOf(Mem, Mem.defenderId)[j], clock).code # "OK"
          /\ Played(onDefend(Mem, Mem.defenderId, IntIdx(i), HandOf(Mem, Mem.defenderId)[k], clock))
     \/ \E k \in DOMAIN HandOf(Mem, Mem.defenderId) :
          /\ \A j \in 1 .. k - 1 :
               onTransfer(Mem, Mem.defenderId, HandOf(Mem, Mem.defenderId)[j], clock).code # "OK"
          /\ Played(onTransfer(Mem, Mem.defenderId, HandOf(Mem, Mem.defenderId)[k], clock))
     \/ ~Mem.takeDeclared /\ Played(onTake(Mem, Mem.defenderId, clock))
     \/ Played(onBeat(Mem, Mem.defenderId, clock))

\* the stored games the players go on with: the late snapshots of the
\* recorded games of at most MaxSeats players, with at most MaxCards cards
\* left in the deck, the hands and on the table, and the last throwing-in of
\* GameJ
FairSnapshots ==
  {s \in Snapshots :
     /\ s.phase = "playing"
     /\ Len(s.order) <= MaxSeats
     /\ Len(s.deck) + Len(handCards(s, s.order)) + Len(tableCards(s.table)) <= MaxCards}
    \cup {Replay(GameJ, 21)}

InitFair ==
  /\ loaded = FALSE
  /\ room = NoRoom
  /\ stored \in FairSnapshots
  /\ sent = <<>>
  /\ clock = 0
  /\ putFailed = FALSE
  /\ pending = <<>>
  /\ attach = [s \in Range(Sockets) |-> Closed]
  /\ req = NoReq
  /\ MmIdle

NextFair ==
  \/ FairOpen
  \/ FairThrowIn
  \/ FairPass
  \/ FairAnswer

\* the attacker opens when the table is empty, every attacker passes in the
\* end, the defender answers
SpecFair ==
  /\ InitFair /\ [][NextFair]_vars
  /\ WF_vars(FairOpen) /\ WF_vars(FairPass) /\ WF_vars(FairAnswer)

(* ------------------- one round of a perevodnoy game -------------------- *)
\* The shuffle that leaves the four nines on top of a 24-card deck: dealt one
\* card at a time, two players hold two nines each, three players two, one
\* and one, four players one each; the first attacker (the holder of the
\* lowest trump, S9) is the first seat.

ChainGames ==
  {[cfg |-> Cfg("perevodnoy", 24, n),
    js |-> <<0, 6, 12, 18, 0, 6, 12, 6, 0, 12, 6, 0, 0, 6, 0, 6, 0, 6, 0, 0, 0, 0, 0>>,
    cuts |-> {0, 1},
    script |-> << <<"ATTACK", Players[1], <<"S", "9">>, 0>> >>] : n \in 2 .. 4}

\* the frames of a round that put a card on the table, from seated players
\* naming cards of their own hands
ChainAttack ==
  /\ clock < MaxChain
  /\ Mem # NoRoom
  /\ \E tgId \in Range(Mem.order) : \E card \in Range(HandOf(Mem, tgId)) :
       Deliver("ATTACK", tgId, onAttack(Mem, tgId, card, clock))

ChainTransfer ==
  /\ clock < MaxChain
  /\ Mem # NoRoom
  /\ \E tgId \in Range(Mem.order) : \E card \in Range(HandOf(Mem, tgId)) :
       Deliver("TRANSFER", tgId, onTransfer(Mem, tgId, card, clock))

InitChain ==
  /\ loaded = FALSE
  /\ room = NoRoom
  /\ stored \in UNION {{Replay(game, k) : k \in game.cuts} : game \in ChainGames}
  /\ sent = <<>>
  /\ clock = 0
  /\ putFailed = FALSE
  /\ pending = <<>>
  /\ attach = [s \in Range(Sockets) |-> Closed]
  /\ req = NoReq
  /\ MmIdle

NextChain ==
  \/ ChainAttack
  \/ ChainTransfer

SpecChain == InitChain /\ [][NextChain]_vars

\* an accepted event whose storage.put throws
PersistFails ==
  /\ clock < MaxClock
  /\ Mem # NoRoom
  /\ \E tgId \in Senders(Mem) :
       \/ \E card \in CardInputs(Mem, tgId) :
            \/ DeliverPutFails(onAttack(Mem, tgId, card, clock))
            \/ DeliverPutFails(onTransfer(Mem, tgId, card, clock))
            \/ \E idx \in IndexInputs(Mem) :
                 DeliverPutFails(onDefend(Mem, tgId, idx, card, clock))
       \/ DeliverPutFails(onTake(Mem, tgId, clock))
       \/ DeliverPutFails(onPass(Mem, tgId, clock))
       \/ DeliverPutFails(onBeat(Mem, tgId, clock))

NextIO ==
  \/ Next
  \/ PersistFails

\* the room on a storage whose writes may fail
SpecIO == Init /\ [][NextIO]_vars

\* fetch /init reaching a room that holds a game, under the same or another
\* room id: initGame() and persist() run as on an empty room
ReInit ==
  /\ clock < MaxClock
  /\ Mem # NoRoom
  /\ \E deal \in Deals, roomId \in {RoomId, "r2"} :
       /\ room' = initGame(roomId, deal.cfg, Players, deal.js, clock)
       /\ stored' = persist(room', stored)
       /\ req' = [type |-> "INIT", roomId |-> roomId, now |-> clock]
  /\ loaded' = TRUE
  /\ sent' = <<InitResponse>>
  /\ clock' = clock + 1
  /\ putFailed' = FALSE
  /\ UNCHANGED <<pending, attach, mmVars>>

NextInit ==
  \/ Next
  \/ ReInit

\* the room when /init is not only sent once by the matchmaker
SpecInit == Init /\ [][NextInit]_vars

(* ------------------------- suspended handlers ------------------------- *)

\* The gameplay handlers with their suspension point: a handler runs from the
\* delivery of its frame to `await this.persist()` without an await, and goes
\* on to broadcastStates() when the put has resolved.

\* The input gate of the actor. The only await of a handler is the one of
\* state.storage.put, a storage operation: while it is awaited no other event
\* is delivered to the object.
inputGateIgnored(p) == TRUE

inputGateOpen(p) == p = <<>>

\* a frame to a socket: an ERROR with its code, or ws.close(1008, reason)
WsFrame(s, type, code) == [to |-> s, type |-> type, code |-> code]

WsState(att, g, s) == [to |-> s, type |-> "STATE", state |-> buildStateFor(g, att[s])]

\* a STATE frame with buildStateFor(tgId) to every socket with a tgId in its
\* attachment
broadcastStates(att, g) ==
  [i \in DOMAIN SelectSeq(Sockets, LAMBDA s : att[s] \notin {Closed, NoId}) |->
     WsState(att, g, SelectSeq(Sockets, LAMBDA s : att[s] \notin {Closed, NoId})[i])]

\* the rooms the frames of this section arrive at: a round is about to start,
\* the first one of a game included
GateSnapshots ==
  {s \in Snapshots : s.phase = "playing" /\ s.table = <<>>}
    \cup {Replay(game, 0) : game \in Games}

\* the gameplay frames of a socket attached to tgId: the six events, with a
\* card of the own hand and an index of the table or one past it
FramesOf(g, tgId) ==
  {<<type, tgId, NoCard, 0>> : type \in {"TAKE", "PASS", "BEAT"}}
    \cup (IF g = NoRoom THEN {}
          ELSE {<<type, tgId, card, 0>> :
                  type \in {"ATTACK", "TRANSFER"}, card \in Range(HandOf(g, tgId))}
               \cup {<<"DEFEND", tgId, card, idx>> :
                       card \in Range(HandOf(g, tgId)), idx \in 0 .. Len(g.table)})

\* webSocketMessage up to the first await of the handler it dispatches to
BeginWith(tgId, r) ==
  /\ loaded' = TRUE
  /\ clock' = clock + 1
  /\ putFailed' = FALSE
  /\ room' = r.game
  /\ IF r.code # "OK"
       THEN /\ sent' = <<ErrorFrame(tgId, r.code)>>
            /\ UNCHANGED <<stored, pending>>
       ELSE /\ stored' = r.game
            /\ sent' = <<>>
            /\ pending' = Append(pending, [tgId |-> tgId, after |-> r.game])
  /\ UNCHANGED <<attach, req, mmVars>>

Begin ==
  /\ clock < MaxClock
  /\ Mem # NoRoom
  /\ inputGateOpen(pending)
  /\ \E s \in Range(Sockets) : \E ev \in FramesOf(Mem, attach[s]) :
       BeginWith(attach[s], Handle(Mem, ev, clock))

\* the put of the oldest suspended handler has resolved: broadcastStates()
Finish ==
  /\ pending # <<>>
  /\ sent' = broadcastStates(attach, room)
  /\ pending' = Tail(pending)
  /\ UNCHANGED <<loaded, room, stored, clock, putFailed, attach, req, mmVars>>

InitGate ==
  /\ loaded = FALSE
  /\ room = NoRoom
  /\ stored \in GateSnapshots
  /\ sent = <<>>
  /\ clock = 0
  /\ putFailed = FALSE
  /\ pending = <<>>
  /\ attach = [s \in Range(Sockets) |-> stored.order[IndexOf(Sockets, s) + 1]]
  /\ req = NoReq
  /\ MmIdle

NextGate ==
  \/ Begin
  \/ Finish

\* a room whose frames arrive while earlier handlers may be suspended
SpecGate == InitGate /\ [][NextGate]_vars

(* ------------------------------ sessions ------------------------------ *)

\* env.APP_SECRET
AppSecret == "APP_SECRET"

\* exp - iat of a minted session: 2 * 60 * 60 * 1000 ms
SessionTtl == 7200000

NoSession == [none |-> TRUE]

\* HMAC-SHA256 in hex, as an ideal MAC: the tag names the key and the data,
\* so two tags are equal only for the same key and the same data
hmacSha256Text(keyText, data) == <<"hmac", keyText, data>>

\* base64urlEncode of the bytes of JSON.stringify(payload): the text of the
\* payload, field after field
base64urlEncode(payload) == <<"b64", payload.tg_id, payload.iat, payload.exp>>

\* JSON.parse of the decoded text of base64urlDecodeToBytes: the payload of a
\* text that base64urlEncode wrote, an exception (null) for any other text
base64urlDecode(bodyB64) ==
  IF Len(bodyB64) = 4 /\ bodyB64[1] = "b64"
    THEN [tg_id |-> bodyB64[2], iat |-> bodyB64[3], exp |-> bodyB64[4]]
    ELSE NoSession

\* a token is the sequence of its parts between the dots; "" is <<>>
signSession(payload, appSecret) ==
  <<base64urlEncode(payload), hmacSha256Text(appSecret, base64urlEncode(payload))>>

verifySession(token, appSecret) ==
  IF token = <<>> \/ appSecret = "" THEN NoSession
  ELSE IF Len(token) # 2 THEN NoSession
  ELSE IF hmacSha256Text(appSecret, token[1]) # token[2] THEN NoSession
  ELSE base64urlDecode(token[1])

\* the session /api/auth/telegram mints for a user at time now
Minted(tgId, now) == [tg_id |-> tgId, iat |-> now, exp |-> now + SessionTtl]

\* the tokens a client presents at time now: sessions minted by the server
\* that expire after now, at now and before now, and tokens it did not mint:
\* signed with another secret, with the body or the MAC of another token,
\* with one part, with three parts, the empty string
TokenInputs(ids, now) ==
  {signSession(Minted(tgId, e - SessionTtl), AppSecret) : tgId \in ids, e \in {now - 1, now, now + 1}}
    \cup {signSession(Minted("p1", now), "another secret"),
          <<base64urlEncode(Minted("p2", now)), signSession(Minted("p1", now), AppSecret)[2]>>,
          <<base64urlEncode(Minted("p1", now)), signSession(Minted("p1", now - 1), AppSecret)[2]>>,
          <<base64urlEncode(Minted("p1", now))>>,
          signSession(Minted("p1", now), AppSecret) \o <<"x">>,
          <<>>}

(* ------------------------------- sockets ------------------------------ *)

\* The room with its WebSockets: the upgrade, JOIN, and the gameplay frames
\* taken by the tgId their socket is attached to.

\* an ERROR frame to every socket attached to tgId
sendErrTo(att, tgId, code) ==
  [i \in DOMAIN SelectSeq(Sockets, LAMBDA s : att[s] = tgId) |->
     WsFrame(SelectSeq(Sockets, LAMBDA s : att[s] = tgId)[i], "ERROR", code)]

\* the rooms whose sockets are followed: no room, a fresh deal of two seats, a
\* game of three seats with a card on the table, and the finished games of two
WsSnapshots ==
  {NoRoom, Replay(GameA, 0), Replay(GameB, 2)}
    \cup {s \in Snapshots : s.phase = "finished" /\ Len(s.order) = 2}

\* the attachments of the sockets of a room that wakes up: closed, accepted
\* without JOIN, or joined, here no two of them by the same player
WsAttachments ==
  {att \in [Range(Sockets) -> {Closed, NoId, "p1", "p2"}] :
     \A s, t \in Range(Sockets) : (s # t /\ att[s] = att[t]) => att[s] \in {Closed, NoId}}

\* fetch with Upgrade: websocket
Connect ==
  /\ clock < MaxClock
  /\ \E s \in Range(Sockets) :
       /\ attach[s] = Closed
       /\ attach' = [attach EXCEPT ![s] = NoId]
       /\ req' = [type |-> "UPGRADE", ws |-> s, now |-> clock]
  /\ loaded' = TRUE
  /\ room' = Mem
  /\ sent' = <<>>
  /\ clock' = clock + 1
  /\ putFailed' = FALSE
  /\ UNCHANGED <<stored, pending, mmVars>>

\* webSocketMessage, msg.type = "JOIN", with the session verifySession returned
JoinWith(s, session) ==
  IF Mem = NoRoom
    THEN /\ sent' = <<WsFrame(s, "ERROR", "ROOM_NOT_READY"), WsFrame(s, "CLOSE", "Room not ready")>>
         /\ attach' = [attach EXCEPT ![s] = Closed]
  ELSE IF session = NoSession
    THEN /\ sent' = <<WsFrame(s, "ERROR", "BAD_SESSION"), WsFrame(s, "CLOSE", "Bad session")>>
         /\ attach' = [attach EXCEPT ![s] = Closed]
  ELSE IF session.exp < clock
    THEN /\ sent' = <<WsFrame(s, "ERROR", "SESSION_EXPIRED"), WsFrame(s, "CLOSE", "Expired")>>
         /\ attach' = [attach EXCEPT ![s] = Closed]
  ELSE /\ attach' = [attach EXCEPT ![s] = session.tg_id]
       /\ sent' = <<WsState(attach', Mem, s)>> \o broadcastStates(attach', Mem)

Join ==
  /\ clock < MaxClock
  /\ \E s \in Range(Sockets) : \E token \in TokenInputs({"p1", "p2", Outsider}, clock) :
       /\ attach[s] # Closed
       /\ JoinWith(s, verifySession(token, AppSecret))
       /\ req' = [type |-> "JOIN", ws |-> s, token |-> token, now |-> clock]
  /\ loaded' = TRUE
  /\ room' = Mem
  /\ clock' = clock + 1
  /\ putFailed' = FALSE
  /\ UNCHANGED <<stored, pending, mmVars>>

\* a gameplay handler for the tgId of the socket: sendErrTo(tgId, code) and
\* return, or persist() and broadcastStates()
FrameWith(tgId, r) ==
  /\ room' = r.game
  /\ IF r.code # "OK"
       THEN /\ sent' = sendErrTo(attach, tgId, r.code)
            /\ UNCHANGED stored
       ELSE /\ stored' = r.game
            /\ sent' = broadcastStates(attach, r.game)

\* webSocketMessage with a gameplay frame
Frame ==
  /\ clock < MaxClock
  /\ \E s \in Range(Sockets) :
       /\ attach[s] # Closed
       /\ \E ev \in FramesOf(IF attach[s] = NoId THEN NoRoom ELSE Mem, attach[s]) :
            /\ IF attach[s] = NoId
                 THEN /\ sent' = <<WsFrame(s, "ERROR", "NOT_JOINED")>>
                      /\ room' = Mem
                      /\ UNCHANGED stored
               ELSE IF Mem = NoRoom
                 THEN /\ sent' = <<WsFrame(s, "ERROR", "ROOM_NOT_READY")>>
                      /\ room' = Mem
                      /\ UNCHANGED stored
               ELSE FrameWith(attach[s], Handle(Mem, ev, clock))
            /\ req' = [type |-> ev[1], ws |-> s, tgId |-> attach[s], now |-> clock]
  /\ loaded' = TRUE
  /\ clock' = clock + 1
  /\ putFailed' = FALSE
  /\ UNCHANGED <<pending, attach, mmVars>>

InitWs ==
  /\ loaded = FALSE
  /\ room = NoRoom
  /\ stored \in WsSnapshots
  /\ sent = <<>>
  /\ clock = 0
  /\ putFailed = FALSE
  /\ pending = <<>>
  /\ attach \in WsAttachments
  /\ req = NoReq
  /\ MmIdle

NextWs ==
  \/ Connect
  \/ Join
  \/ Frame

\* a room and the sockets of its clients
SpecWs == InitWs /\ [][NextWs]_vars

(* ----------------------------- matchmaker ----------------------------- *)

\* MatchmakerDO.fetch POST /match, reached through POST /api/matchmaking with
\* the same bearer token; both check the session the same way.

\* the life of a binding: 5 * 60 * 1000 ms
MatchTtl == 300000

\* arr.filter((x) => x && x !== tgId) followed by push(tgId)
pushOnly(arr, tgId) == Append(arr, tgId)

dedupPush(arr, tgId) == Append(SelectSeq(arr, LAMBDA x : x # tgId), tgId)

Matched(roomId) == [status |-> "matched", roomId |-> roomId]

\* the group of the first need ids of cur is taken out of the queue and bound
\* to the room roomId; delivered tells whether the room answered /init
\* (an exception of stub.fetch ends the handler before its response)
GroupFormed(tgId, cfg, cur, roomId, delivered) ==
  /\ queue' = [queue EXCEPT ![keyOf(cfg)] = SubSeq(cur, cfg.maxPlayers + 1, Len(cur))]
  /\ match' = [p \in MmPlayers |->
                 IF Includes(SubSeq(cur, 1, cfg.maxPlayers), p)
                   THEN [roomId |-> roomId, expiresAt |-> mmNow + MatchTtl]
                   ELSE match[p]]
  /\ IF delivered
       THEN /\ inits' = Append(inits, [roomId |-> roomId, config |-> cfg,
                                       players |-> SubSeq(cur, 1, cfg.maxPlayers)])
            /\ reply' = IF Includes(SubSeq(cur, 1, cfg.maxPlayers), tgId)
                          THEN Matched(roomId) ELSE [status |-> "queued"]
       ELSE /\ reply' = [status |-> "500", error |-> "worker error"]
            /\ UNCHANGED inits

\* the handler for the session the token verifies to, cur being the queue of
\* the key once the caller is in it
EnqueueWith(session, cfg, cur) ==
  /\ IF session = NoSession
       THEN /\ reply' = [status |-> "401", error |-> "invalid session"]
            /\ UNCHANGED <<queue, match, inits>>
     ELSE IF session.exp < mmNow
       THEN /\ reply' = [status |-> "401", error |-> "session expired"]
            /\ UNCHANGED <<queue, match, inits>>
     ELSE IF match[session.tg_id] # NoMatch /\ match[session.tg_id].expiresAt > mmNow
       THEN /\ reply' = Matched(match[session.tg_id].roomId)
            /\ UNCHANGED <<queue, match, inits>>
     ELSE IF Len(cur) >= cfg.maxPlayers
       THEN GroupFormed(session.tg_id, cfg, cur, <<"uuid", served>>, TRUE)
     ELSE /\ queue' = [queue EXCEPT ![keyOf(cfg)] = cur]
          /\ reply' = [status |-> "queued"]
          /\ UNCHANGED <<match, inits>>
  /\ req' = [type |-> "MATCH", cfg |-> cfg, now |-> mmNow, initFails |-> FALSE,
             tgId |-> IF session = NoSession \/ session.exp < mmNow
                        THEN NoId ELSE session.tg_id]

Enqueue ==
  /\ served < MaxRequests
  /\ \E token \in TokenInputs(MmPlayers, mmNow), cfg \in MmConfigs :
       EnqueueWith(verifySession(token, AppSecret), cfg,
                   IF verifySession(token, AppSecret) = NoSession
                     THEN <<>>
                     ELSE dedupPush(queue[keyOf(cfg)],
                                    verifySession(token, AppSecret).tg_id))
  /\ served' = served + 1
  /\ mmNow' = mmNow + 1
  /\ UNCHANGED <<loaded, room, stored, sent, clock, putFailed, pending, attach>>

\* five minutes pass without a request: the bindings written so far expire
Tick ==
  /\ \E p \in MmPlayers : match[p] # NoMatch /\ match[p].expiresAt > mmNow
  /\ mmNow' = mmNow + MatchTtl
  /\ UNCHANGED <<loaded, room, stored, sent, clock, putFailed, pending, attach, req>>
  /\ UNCHANGED <<queue, match, inits, reply, served>>

\* the request of a player whose arrival completes a group, with the room's
\* /init failing: stub.fetch throws after the queue and the bindings were saved
EnqueueInitFails ==
  /\ served < MaxRequests
  /\ \E tgId \in MmPlayers, cfg \in MmConfigs :
       /\ ~(match[tgId] # NoMatch /\ match[tgId].expiresAt > mmNow)
       /\ Len(dedupPush(queue[keyOf(cfg)], tgId)) >= cfg.maxPlayers
       /\ GroupFormed(tgId, cfg, dedupPush(queue[keyOf(cfg)], tgId), <<"uuid", served>>, FALSE)
       /\ req' = [type |-> "MATCH", cfg |-> cfg, now |-> mmNow, initFails |-> TRUE,
                  tgId |-> tgId]
  /\ served' = served + 1
  /\ mmNow' = mmNow + 1
  /\ UNCHANGED <<loaded, room, stored, sent, clock, putFailed, pending, attach>>

InitMm ==
  /\ loaded = FALSE
  /\ room = NoRoom
  /\ stored = NoRoom
  /\ sent = <<>>
  /\ clock = 0
  /\ putFailed = FALSE
  /\ pending = <<>>
  /\ attach = [s \in Range(Sockets) |-> Closed]
  /\ req = NoReq
  /\ MmIdle

NextMm ==
  \/ Enqueue
  \/ Tick

\* the matchmaker, every room answering its /init
SpecMm == InitMm /\ [][NextMm]_vars

NextMmIo ==
  \/ NextMm
  \/ EnqueueInitFails

\* the matchmaker with rooms whose /init may fail
SpecMmIo == InitMm /\ [][NextMmIo]_vars

(* ------------------------------ properties ---------------------------- *)

Playing == Mem # NoRoom /\ Mem.phase = "playing"

IsErrorFrame(f) == f.type = "ERROR"

\* every card the game holds: deck, discard, hands, table
allCards(g) == g.deck \o g.discard \o handCards(g, g.order) \o tableCards(g.table)

Conserved(g) ==
  /\ Len(allCards(g)) = g.config.deckSize
  /\ Range(allCards(g)) = Range(createDeck(g.config.deckSize))

\* C1: card conservation. In every reachable state of a room, in memory and in
\* storage, the cards of deck, discard, all hands and the table are exactly the
\* cards of the full deck of the configured size, each of them once.
CardConservation ==
  /\ Mem # NoRoom => Conserved(Mem)
  /\ stored # NoRoom => Conserved(stored)

\* C1 witness: an event has just been accepted in a game that holds cards in
\* the deck, the discard pile, the hands and on the table, one pair defended.
CardConservationWitness ==
  /\ loaded /\ clock > 0 /\ Mem # NoRoom
  /\ Len(Mem.deck) > 0 /\ Len(Mem.discard) > 0 /\ Len(Mem.table) > 0
  /\ \E i \in DOMAIN Mem.table : Mem.table[i].d # NoCard
  /\ sent = <<StateFrames>>

\* the frames of a step that handled a client frame without accepting it:
\* no STATE broadcast and no response to the matchmaker
NotAccepted(frames) ==
  \A i \in DOMAIN frames : frames[i].type \notin {"STATE", "HTTP"}

\* C2: every rejected client event (malformed frames included) produces one
\* ERROR frame to the sender and leaves the game in memory and the snapshot
\* in storage as they were.
EveryRejectionAnswered ==
  [][NotAccepted(sent') =>
       /\ Len(sent') = 1 /\ IsErrorFrame(sent'[1])
       /\ Mem' = Mem /\ stored' = stored]_vars

\* The part of C2 the handlers keep: every step that answers with an ERROR
\* frame sends exactly that one frame and leaves the game in memory and the
\* snapshot in storage as they were.
RejectedChangesNothing ==
  [][(sent' # <<>> /\ IsErrorFrame(sent'[1]))
       => (Len(sent') = 1 /\ Mem' = Mem /\ stored' = stored)]_vars

Hidden == <<"?", "?">>

\* the game with the hands of the players other than tgId and the deck turned
\* face down: only their sizes remain
Masked(g, tgId) ==
  [g EXCEPT !.hands = [id \in DOMAIN g.hands |->
                         IF id = tgId THEN g.hands[id]
                         ELSE [i \in 1..Len(g.hands[id]) |-> Hidden]],
            !.deck = [i \in 1..Len(g.deck) |-> Hidden]]

\* C3: view privacy. The view built for a player is the view built from the
\* game with the other hands and the deck face down, so two games that differ
\* only in the contents of other hands and the order of the deck give the
\* player the same view, allowed flags included.
ViewPrivacy ==
  Mem # NoRoom =>
    \A tgId \in Range(Mem.order) \cup {Outsider} :
      buildStateFor(Mem, tgId) = buildStateFor(Masked(Mem, tgId), tgId)

\* C3 witness: a broadcast in a running game where another player holds cards
\* and the deck is not empty.
ViewPrivacyWitness ==
  /\ Playing /\ sent = <<StateFrames>>
  /\ Len(Mem.deck) > 1
  /\ \A i \in DOMAIN Mem.order : Len(Mem.hands[Mem.order[i]]) > 0
  /\ Len(Mem.order) = 3

\* beats(d, a, trumpSuit) in the words of the rules: same suit and higher rank,
\* or d is a trump and a is not
Beats(d, a, trumpSuit) ==
  \/ d[1] = a[1] /\ strToRank(d[2]).rank > strToRank(a[2]).rank
  \/ d[1] = trumpSuit /\ a[1] # trumpSuit

\* C4: defense soundness. In every reachable state every pair of the table
\* that has a defense card d over the attack card a satisfies beats(d, a, trump).
DefenseSoundness ==
  Mem # NoRoom =>
    \A i \in DOMAIN Mem.table :
      Mem.table[i].d # NoCard => Beats(Mem.table[i].d, Mem.table[i].a, Mem.trumpSuit)

\* C4 witness: a DEFEND has just been accepted, one pair beaten by a trump over
\* a non-trump.
DefenseSoundnessWitness ==
  /\ Playing /\ loaded /\ sent = <<StateFrames>>
  /\ \E i \in DOMAIN Mem.table :
       /\ Mem.table[i].d # NoCard
       /\ Mem.table[i].d[1] = Mem.trumpSuit
       /\ Mem.table[i].a[1] # Mem.trumpSuit
  /\ stored.updatedAt = clock - 1

\* C5: bounded table. In every reachable state the number of pairs on the
\* table is at most roundLimit.
TableWithinRoundLimit ==
  Mem # NoRoom => Len(Mem.table) <= Mem.roundLimit

\* C6: roundLimit never exceeds 6, so the table never holds more than 6 pairs.
RoundLimitAtMostSix ==
  Mem # NoRoom => Mem.roundLimit <= HandSize /\ Len(Mem.table) <= HandSize

\* C7: role disjointness. In every reachable state with phase playing and at
\* least two active players, attackerId and defenderId are different players
\* and both are active.
RoleDisjointness ==
  (Playing /\ Cardinality({id \in Range(Mem.order) : IsActive(Mem.active, id)}) >= 2) =>
    /\ Mem.attackerId # Mem.defenderId
    /\ IsActive(Mem.active, Mem.attackerId)
    /\ IsActive(Mem.active, Mem.defenderId)

\* C7 witness: a round has just been resolved in a game of three seats where a
\* player has gone out, and the game goes on.
RoleDisjointnessWitness ==
  /\ Playing /\ loaded /\ sent = <<StateFrames>>
  /\ Mem.table = <<>> /\ Mem.updatedAt = clock - 1
  /\ \E id \in Range(Mem.order) : ~IsActive(Mem.active, id)

\* C8: in every reachable state with phase playing, defenderId is the next
\* active player after attackerId in seating order.
DefenderFollowsAttacker ==
  Playing => Mem.defenderId = nextActiveId(Mem.order, Mem.active, Mem.attackerId)

\* C9: once TAKE is declared, no defense card is added and no transfer made
\* until the round resolves. A step from a running game with takeDeclared set
\* either ends the round (the table is cleared) or leaves the defense card of
\* every pair, the defender and takeDeclared as they were.
NoDefenseAfterTake ==
  [][(Playing /\ Mem.takeDeclared) =>
       \/ Mem'.table = <<>>
       \/ /\ \A i \in DOMAIN Mem.table : Mem'.table[i].d = Mem.table[i].d
          /\ \A i \in DOMAIN Mem'.table : i > Len(Mem.table) => Mem'.table[i].d = NoCard
          /\ Mem'.defenderId = Mem.defenderId
          /\ Mem'.takeDeclared]_vars

\* C9 witness: a DEFEND of the defender has been rejected because TAKE is
\* declared.
NoDefenseAfterTakeWitness ==
  /\ Playing /\ Mem.takeDeclared
  /\ sent = <<ErrorFrame(Mem.defenderId, "TAKE_ALREADY_DECLARED")>>

\* C10: when storage.put fails in an otherwise legal event, the game in memory
\* is the last persisted snapshot again, the sender has ERROR PERSIST_FAILED,
\* and no STATE frame went out.
PersistFailureRollsBack ==
  putFailed =>
    /\ room = stored
    /\ Len(sent) = 1 /\ IsErrorFrame(sent[1]) /\ sent[1].code = "PERSIST_FAILED"

IsJoined(att, s) == att[s] \notin {Closed, NoId}

\* C12: reconnect replaces the socket. When a JOIN is accepted on a socket
\* while another socket is joined by the same player, the older socket is
\* closed with reason "replaced" and loses its attachment (its later frames
\* are those of a socket that has not joined), so that no two sockets are
\* joined by one player; the new socket gets a STATE and the game is as it was.
ReconnectReplacesSocket ==
  [][(req'.type = "JOIN" /\ IsJoined(attach', req'.ws)) =>
       /\ \A t \in Range(Sockets) \ {req'.ws} :
            attach[t] = attach'[req'.ws] =>
              /\ attach'[t] = Closed
              /\ WsFrame(t, "CLOSE", "replaced") \in Range(sent')
       /\ \A t, u \in Range(Sockets) :
            (t # u /\ IsJoined(attach', t)) => attach'[t] # attach'[u]
       /\ \E i \in DOMAIN sent' : sent'[i].to = req'.ws /\ sent'[i].type = "STATE"
       /\ Mem' = Mem /\ stored' = stored]_vars

\* the sessions a server with AppSecret has minted that are not expired at now
LiveTokens(now) ==
  {signSession(Minted(tgId, e - SessionTtl), AppSecret) :
     tgId \in {"p1", "p2", Outsider}, e \in {now + 1}}

\* C13: a JOIN with a valid session of a player who is not in the order of the
\* game is rejected with NOT_IN_GAME and the socket is not registered: no
\* socket is ever joined by such a player, none gets a STATE frame, and no
\* frame of such a player changes the game.
OutsiderKeptOut ==
  [][Mem # NoRoom =>
       /\ (req'.type = "JOIN" /\ req'.token \in LiveTokens(req'.now)
             /\ verifySession(req'.token, AppSecret).tg_id \notin Range(Mem.order))
            => /\ sent'[1] = WsFrame(req'.ws, "ERROR", "NOT_IN_GAME")
               /\ ~IsJoined(attach', req'.ws)
       /\ \A t \in Range(Sockets) :
            (IsJoined(attach', t) /\ attach'[t] \notin Range(Mem.order)) =>
              /\ \A i \in DOMAIN sent' : ~(sent'[i].to = t /\ sent'[i].type = "STATE")
              /\ (req'.ws = t /\ req'.type # "JOIN") => Mem' = Mem]_vars

\* C14: once the game is finished, every gameplay event of a joined socket is
\* answered with the error code GAME_FINISHED, and a STATE broadcast to the
\* joined sockets still goes out.
FinishedGameAnswers ==
  [][(Mem # NoRoom /\ Mem.phase = "finished" /\ IsJoined(attach, req'.ws)
        /\ req'.type \in {"ATTACK", "DEFEND", "TRANSFER", "TAKE", "PASS", "BEAT"}) =>
       /\ WsFrame(req'.ws, "ERROR", "GAME_FINISHED") \in Range(sent')
       /\ \A t \in Range(Sockets) :
            IsJoined(attach, t) => WsState(attach, Mem', t) \in Range(sent')]_vars

\* C18: restart transparency. When the actor is evicted or restarted, the room
\* the next handler finds after loadOnce() is the room that was in memory:
\* every accepted mutation was persisted before its broadcast.
RestartTransparency ==
  [][(loaded /\ ~loaded') => (Mem' = room /\ stored' = stored)]_vars

\* C18 witness: an event was accepted at time 1, after it the actor was
\* evicted, and the storage holds the game that event left.
RestartTransparencyWitness ==
  /\ ~loaded /\ clock = 2
  /\ stored # NoRoom /\ stored.updatedAt = 1 /\ stored.table # <<>>

SessionAcceptedIffLive ==
  (req.type = "JOIN" /\ Mem # NoRoom) =>
    ((IsJoined(attach, req.ws) /\ sent # <<>> /\ sent[1].type = "STATE")
       <=> req.token \in LiveTokens(req.now))

\* a step in which the matchmaker handled the request req' of a verified,
\* unexpired session
Enqueued == served' = served + 1 /\ req'.type = "MATCH" /\ req'.tgId # NoId

\* C15: enqueue is idempotent while waiting. When a player who is already in
\* the queue of a config enqueues again with that config and no match is
\* formed, every queue is as it was.
EnqueueIsIdempotent ==
  [][(Enqueued /\ Includes(queue[keyOf(req'.cfg)], req'.tgId) /\ inits' = inits) =>
       queue' = queue]_vars

\* whether the binding of tgId is live at the time of the request req'
Bound(tgId) == match[tgId] # NoMatch /\ match[tgId].expiresAt > req'.now

\* C16: forming a group. An enqueue of a player without a live binding that
\* makes the queue of the config reach maxPlayers initialises exactly one room
\* under a room id no earlier room has, with the first maxPlayers ids of the
\* queue in queue order, pairwise distinct; these ids leave the queue, each of
\* them gets a binding to that room for MatchTtl, nobody else's binding
\* changes, and the caller is answered Matched with that room id when in the
\* group and queued otherwise. No other enqueue initialises a room, and an enqueue of a player
\* with a live binding is answered Matched with the bound room id and changes
\* no queue, no binding and no room.
GroupIsFormedInOrder ==
  [][Enqueued =>
       /\ (inits' # inits) <=>
            (~Bound(req'.tgId)
               /\ Len(SelectSeq(queue[keyOf(req'.cfg)], LAMBDA x : x # req'.tgId)) + 1
                    >= req'.cfg.maxPlayers)
       /\ (inits' # inits) =>
            /\ Len(inits') = Len(inits) + 1 /\ SubSeq(inits', 1, Len(inits)) = inits
            /\ \A k \in DOMAIN inits : inits[k].roomId # inits'[Len(inits')].roomId
            /\ inits'[Len(inits')].config = req'.cfg
            /\ Len(inits'[Len(inits')].players) = req'.cfg.maxPlayers
            /\ \A i, j \in DOMAIN inits'[Len(inits')].players :
                 i # j => inits'[Len(inits')].players[i] # inits'[Len(inits')].players[j]
            /\ inits'[Len(inits')].players \o queue'[keyOf(req'.cfg)]
                 = Append(SelectSeq(queue[keyOf(req'.cfg)], LAMBDA x : x # req'.tgId), req'.tgId)
            /\ \A key \in DOMAIN queue : key # keyOf(req'.cfg) => queue'[key] = queue[key]
            /\ \A p \in MmPlayers :
                 match'[p] = IF Includes(inits'[Len(inits')].players, p)
                               THEN [roomId |-> inits'[Len(inits')].roomId,
                                     expiresAt |-> req'.now + MatchTtl]
                               ELSE match[p]
            /\ reply' = IF Includes(inits'[Len(inits')].players, req'.tgId)
                          THEN Matched(inits'[Len(inits')].roomId)
                          ELSE [status |-> "queued"]
       /\ Bound(req'.tgId) =>
            /\ reply' = Matched(match[req'.tgId].roomId)
            /\ queue' = queue /\ match' = match]_vars

\* C16 witness: three players were grouped for a room of three seats, and the
\* first of them has enqueued again and was answered with the same room.
GroupIsFormedInOrderWitness ==
  /\ served = 4 /\ Len(inits) = 1 /\ Len(inits[1].players) = 3
  /\ req.type = "MATCH" /\ req.tgId = inits[1].players[1]
  /\ reply = Matched(inits[1].roomId)
  /\ match[req.tgId].expiresAt > req.now

\* C17: a failing room initialisation is rolled back. When the /init of the
\* room of a selected group fails, the grouped players are at the head of
\* their queue again in their order, no binding has changed, and the caller is
\* answered MatchFailed.
MatchFailureRollsBack ==
  [][(Enqueued /\ req'.initFails) =>
       /\ queue' = [queue EXCEPT ![keyOf(req'.cfg)] =
                      Append(SelectSeq(@, LAMBDA x : x # req'.tgId), req'.tgId)]
       /\ match' = match
       /\ reply'.status = "MatchFailed"]_vars

(* ----------------------- properties of the rounds ---------------------- *)

\* a step that handled the gameplay frame req' of the given type
Handled(type) == req'.type = type /\ req'.now = clock /\ clock' = clock + 1

\* a step in which the frame req' of the given type was accepted
AcceptedEvent(type) == Handled(type) /\ sent' = <<StateFrames>>

\* a step in which the frame req' of the given type was rejected with code
RejectedEvent(type, code) == Handled(type) /\ sent' = <<ErrorFrame(req'.tgId, code)>>

\* C21 as stated: an accepted BEAT moves every card of the table to the discard
\* pile, empties the table and, when the game goes on, clears passed and
\* takeDeclared, makes the previous defender the attacker and the next active
\* player after the new attacker the defender.
BeatRotatesRoles ==
  [][AcceptedEvent("BEAT") =>
       /\ isFullyDefended(Mem.table)
       /\ Mem'.table = <<>>
       /\ Mem'.discard = Mem.discard \o tableCards(Mem.table)
       /\ Mem'.phase = "playing" =>
            /\ Mem'.passed = <<>> /\ ~Mem'.takeDeclared
            /\ Mem'.attackerId = Mem.defenderId
            /\ Mem'.defenderId = nextActiveId(Mem'.order, Mem'.active, Mem'.attackerId)]_vars

\* C21 amended: as above, but the new attacker is the previous defender only if
\* that player is still active after the refill; a defender who has gone out
\* (empty hand, empty deck) is replaced by the next active player after them.
BeatRotatesAmongActive ==
  [][AcceptedEvent("BEAT") =>
       /\ isFullyDefended(Mem.table)
       /\ \A id \in Range(listAttackers(Mem.order, Mem.active, Mem.defenderId)) :
            Includes(Mem.passed, id)
       /\ Mem'.table = <<>>
       /\ Mem'.discard = Mem.discard \o tableCards(Mem.table)
       /\ Mem'.phase = "playing" =>
            /\ Mem'.passed = <<>> /\ ~Mem'.takeDeclared
            /\ Mem'.attackerId =
                 IF IsActive(Mem'.active, Mem.defenderId) THEN Mem.defenderId
                 ELSE nextActiveId(Mem'.order, Mem'.active, Mem.defenderId)
            /\ Mem'.defenderId = nextActiveId(Mem'.order, Mem'.active, Mem'.attackerId)]_vars

\* C21 witness: a BEAT has been accepted whose sender, the defender, went out
\* with it while two other players play on.
BeatRotatesAmongActiveWitness ==
  /\ Playing /\ req.type = "BEAT" /\ sent = <<StateFrames>>
  /\ ~IsActive(Mem.active, req.tgId)
  /\ Mem.attackerId = nextActiveId(Mem.order, Mem.active, req.tgId)
  /\ Mem.table = <<>> /\ Mem.passed = <<>>

\* a PASS step after which every active player but the defender has passed
LastPass ==
  /\ AcceptedEvent("PASS")
  /\ \A id \in Range(listAttackers(Mem.order, Mem.active, Mem.defenderId)) :
       Includes(Mem.passed, id) \/ id = req'.tgId

\* C22: resolution of a TAKE. When takeDeclared is set and the last active
\* player other than the defender passes, the cards of the table are in the
\* defender's hand, the table is empty and, when the game goes on, the new
\* attacker is the next active player after the previous defender and the new
\* defender is the next active player after the new attacker.
TakeSkipsTheTaker ==
  [][(LastPass /\ Mem.takeDeclared) =>
       /\ Mem'.table = <<>>
       /\ Range(tableCards(Mem.table)) \subseteq Range(Mem'.hands[Mem.defenderId])
       /\ Len(Mem'.hands[Mem.defenderId])
            >= Len(Mem.hands[Mem.defenderId]) + Len(tableCards(Mem.table))
       /\ Mem'.phase = "playing" =>
            /\ Mem'.attackerId = nextActiveId(Mem'.order, Mem'.active, Mem.defenderId)
            /\ Mem'.defenderId = nextActiveId(Mem'.order, Mem'.active, Mem'.attackerId)]_vars

\* the step is the outcome r of the handler of the frame req'
IsOutcome(r) ==
  /\ sent' = IF r.code = "OK" THEN <<StateFrames>> ELSE <<ErrorFrame(req'.tgId, r.code)>>
  /\ Mem' = r.game

\* the conditions of a TRANSFER in the words of the rules
TransferAllowed(g, tgId, card) ==
  /\ g.phase = "playing" /\ g.config.mode = "perevodnoy"
  /\ tgId = g.defenderId /\ ~g.takeDeclared
  /\ g.table # <<>> /\ \A i \in DOMAIN g.table : g.table[i].d = NoCard
  /\ \E i \in DOMAIN g.hands[tgId] : g.hands[tgId][i] = card
  /\ \E i \in DOMAIN g.table : g.table[i].a[2] = card[2]

\* a step that handled the TRANSFER of card: it is accepted exactly under the
\* conditions above, and then the card lies as a new undefended pair behind
\* the pairs of the table, the previous defender attacks, the next active
\* player after them defends, roundLimit is the new defender's hand size and
\* nobody has passed
TransferEffect(card) ==
  /\ sent' = <<StateFrames>> <=> TransferAllowed(Mem, req'.tgId, card)
  /\ sent' = <<StateFrames>> =>
       /\ Mem'.table = Append(Mem.table, [a |-> card, d |-> NoCard])
       /\ Len(Mem'.hands[req'.tgId]) = Len(Mem.hands[req'.tgId]) - 1
       /\ Mem'.attackerId = Mem.defenderId
       /\ Mem'.defenderId = nextActiveId(Mem.order, Mem.active, Mem.defenderId)
       /\ Mem'.roundLimit = Len(Mem'.hands[Mem'.defenderId])
       /\ Mem'.passed = <<>>

\* C23 as stated: an accepted TRANSFER has the effect above, and in podkidnoy
\* mode every TRANSFER a seated player sends in a running game is rejected
\* with MODE_NOT_PEREVODNOY.
TransferRejectedByMode ==
  [][Handled("TRANSFER") =>
       \A card \in CardInputs(Mem, req'.tgId) :
         IsOutcome(onTransfer(Mem, req'.tgId, card, clock)) =>
           /\ TransferEffect(card)
           /\ (Mem.config.mode = "podkidnoy" /\ Mem.phase = "playing"
                 /\ Includes(Mem.order, req'.tgId)) =>
                /\ sent' = <<ErrorFrame(req'.tgId, "MODE_NOT_PEREVODNOY")>>
                /\ Mem' = Mem]_vars

\* C23 amended: an accepted TRANSFER has the effect above, and in podkidnoy
\* mode every TRANSFER is rejected and changes nothing: with
\* MODE_NOT_PEREVODNOY when the defender of a running game sends it, with
\* ONLY_DEFENDER_CAN_TRANSFER when another player does, with GAME_NOT_PLAYING
\* when the game is finished.
TransferPassesTheAttack ==
  [][Handled("TRANSFER") =>
       \A card \in CardInputs(Mem, req'.tgId) :
         IsOutcome(onTransfer(Mem, req'.tgId, card, clock)) =>
           /\ TransferEffect(card)
           /\ Mem.config.mode = "podkidnoy" =>
                /\ sent' = <<ErrorFrame(req'.tgId,
                               IF Mem.phase # "playing" THEN "GAME_NOT_PLAYING"
                               ELSE IF req'.tgId # Mem.defenderId
                                 THEN "ONLY_DEFENDER_CAN_TRANSFER"
                               ELSE "MODE_NOT_PEREVODNOY")>>
                /\ Mem' = Mem]_vars

\* C23 witness: in a game of three seats the defender has transferred an
\* attack: two undefended pairs of one rank lie on the table, the sender
\* attacks and the player after them defends.
TransferPassesTheAttackWitness ==
  /\ Playing /\ req.type = "TRANSFER" /\ sent = <<StateFrames>>
  /\ Len(Mem.order) = 3 /\ Len(Mem.table) = 2
  /\ Mem.table[1].d = NoCard /\ Mem.table[2].d = NoCard
  /\ Mem.table[1].a[2] = Mem.table[2].a[2]
  /\ Mem.attackerId = req.tgId
  /\ Mem.defenderId = nextActiveId(Mem.order, Mem.active, req.tgId)
  /\ Mem.roundLimit = Len(Mem.hands[Mem.defenderId])

\* the rank of card is the rank of an attack or defense card of the table
RankOnTable(g, card) ==
  \E i \in DOMAIN g.table :
    \/ g.table[i].a[2] = card[2]
    \/ g.table[i].d # NoCard /\ g.table[i].d[2] = card[2]

\* a seated player sends, in a running game, a card of their hand
PlaysFromHand(g, tgId, card) ==
  /\ g.phase = "playing" /\ Includes(g.order, tgId)
  /\ Includes(g.hands[tgId], card)

\* what C24 says of every accepted ATTACK: onto an empty table only the
\* attacker's is accepted, onto a table with pairs only one whose rank is on it
AttackOpensOrFollows(card) ==
  (sent' = <<StateFrames>> /\ IsOutcome(onAttack(Mem, req'.tgId, card, clock))) =>
    /\ Mem'.table = Append(Mem.table, [a |-> card, d |-> NoCard])
    /\ Mem.table = <<>> => req'.tgId = Mem.attackerId
    /\ Mem.table # <<>> => RankOnTable(Mem, card)

\* the ATTACK of card that the step handled came from a seated player's hand
\* and its rank is not on the table, which holds a pair
AttackOffRank(card) ==
  /\ PlaysFromHand(Mem, req'.tgId, card) /\ Mem.table # <<>>
  /\ ~RankOnTable(Mem, card)
  /\ IsOutcome(onAttack(Mem, req'.tgId, card, clock))

\* C24 as stated: the first ATTACK of a round is accepted only from attackerId;
\* a later ATTACK is accepted only with a rank that is on the table, otherwise
\* the sender gets RANK_NOT_ON_TABLE and the state is unchanged.
AttackNeedsRankOnTable ==
  [][Handled("ATTACK") =>
       /\ \A card \in CardInputs(Mem, req'.tgId) : AttackOpensOrFollows(card)
       /\ (\E card \in CardInputs(Mem, req'.tgId) : AttackOffRank(card)) =>
            /\ sent' = <<ErrorFrame(req'.tgId, "RANK_NOT_ON_TABLE")>>
            /\ Mem' = Mem]_vars

\* C24 amended: as above, but a later ATTACK with a rank that is not on the
\* table is rejected with the code of the first check it fails: the sender
\* gets RANK_NOT_ON_TABLE when they are active, not the defender, have not
\* passed and the table is below roundLimit; the state is unchanged in every
\* case.
AttackFollowsRankOnTable ==
  [][Handled("ATTACK") =>
       /\ \A card \in CardInputs(Mem, req'.tgId) : AttackOpensOrFollows(card)
       /\ (\E card \in CardInputs(Mem, req'.tgId) : AttackOffRank(card)) =>
            /\ Len(sent') = 1 /\ IsErrorFrame(sent'[1]) /\ sent'[1].to = req'.tgId
            /\ Mem' = Mem
            /\ (IsActive(Mem.active, req'.tgId) /\ req'.tgId # Mem.defenderId
                  /\ ~Includes(Mem.passed, req'.tgId)
                  /\ Len(Mem.table) < Mem.roundLimit) =>
                 sent'[1].code = "RANK_NOT_ON_TABLE"]_vars

\* C24 witness: in a game of three or four seats a player other than the
\* attacker has thrown in a card whose rank is not on the table and got
\* RANK_NOT_ON_TABLE.
AttackFollowsRankOnTableWitness ==
  /\ Playing /\ req.type = "ATTACK"
  /\ sent = <<ErrorFrame(req.tgId, "RANK_NOT_ON_TABLE")>>
  /\ req.tgId # Mem.attackerId /\ Mem.table # <<>>
  /\ \E i \in DOMAIN Mem.table : Mem.table[i].d # NoCard

\* a step that resolved a round: an accepted BEAT, or the last PASS after a TAKE
RoundResolved == AcceptedEvent("BEAT") \/ (LastPass /\ Mem.takeDeclared)

\* the players of g that are active
Alive(g) == {id \in Range(g.order) : IsActive(g.active, id)}

\* C25: terminal detection. A round resolution that leaves the deck empty
\* makes inactive exactly the active players whose hand is empty; when at most
\* one player is active after it the phase is finished and the loser is that
\* player, or null when none is left, and otherwise the game goes on. In every
\* state with phase finished and a loser L the deck is empty, L holds at least
\* one card and every other player's hand is empty.
TerminalDetection ==
  /\ [](Mem # NoRoom /\ Mem.phase = "finished" /\ Mem.loser # NoId =>
          /\ Mem.deck = <<>>
          /\ Mem.hands[Mem.loser] # <<>>
          /\ \A id \in Range(Mem.order) \ {Mem.loser} : Mem.hands[id] = <<>>)
  /\ [][(RoundResolved /\ Mem'.deck = <<>>) =>
          /\ Alive(Mem') = {id \in Alive(Mem) : Mem'.hands[id] # <<>>}
          /\ Cardinality(Alive(Mem')) > 1 => Mem'.phase = "playing"
          /\ Cardinality(Alive(Mem')) = 1 =>
               Mem'.phase = "finished" /\ Alive(Mem') = {Mem'.loser}
          /\ Cardinality(Alive(Mem')) = 0 =>
               Mem'.phase = "finished" /\ Mem'.loser = NoId]_vars

\* C25 witness: in a game of three or four seats a BEAT or the last PASS after
\* a TAKE has ended the game, one player left with cards.
TerminalDetectionWitness ==
  /\ Mem # NoRoom /\ Mem.phase = "finished" /\ Mem.loser # NoId
  /\ req.type \in {"BEAT", "PASS"} /\ sent = <<StateFrames>> /\ req.now = clock - 1
  /\ Len(Mem.order) > 2
  /\ Mem.hands[Mem.loser] # <<>>

\* a step in which fetch /init dealt a game
Dealt == sent' = <<InitResponse>> /\ clock' = clock + 1 /\ Mem' # NoRoom

\* what C26 says of the hands, the deck and the trump suit of a dealt game g
DealCounts(g) ==
  /\ Len(g.order) = g.config.maxPlayers
  /\ \A id \in Range(g.order) : Len(g.hands[id]) = HandSize
  /\ Len(g.deck) = g.config.deckSize - HandSize * Len(g.order)
  /\ g.trumpSuit = g.trumpCard[1]

\* C26 as stated: after initGame every player holds 6 cards, the deck holds
\* deckSize - 6 * players cards, trumpSuit is the suit of trumpCard, and
\* trumpCard is the bottom card of the deck, the end opposite the draw end.
DealLeavesTrumpAtBottom ==
  [][Dealt => /\ DealCounts(Mem')
              /\ Mem'.deck # <<>> /\ Mem'.deck[1] = Mem'.trumpCard]_vars

\* C26 amended: as above, but trumpCard is the bottom card of the deck only
\* while the deck holds a card; with 24 cards and 4 players the deal takes the
\* whole deck and trumpCard is the last card dealt, in the last seat's hand.
DealTurnsUpLastCard ==
  [][Dealt => /\ DealCounts(Mem')
              /\ Mem'.deck # <<>> => Mem'.deck[1] = Mem'.trumpCard
              /\ Mem'.deck = <<>> =>
                   /\ Mem'.config.deckSize = HandSize * Len(Mem'.order)
                   /\ Includes(Mem'.hands[Mem'.order[Len(Mem'.order)]], Mem'.trumpCard)]_vars

\* C26 witness: a game of 24 cards has been dealt to 4 players: the deck is
\* empty and the trump card is in a hand.
DealTurnsUpLastCardWitness ==
  /\ sent = <<InitResponse>> /\ Mem # NoRoom
  /\ Mem.config.deckSize = HandSize * Len(Mem.order) /\ Mem.deck = <<>>
  /\ Includes(Mem.hands[Mem.order[Len(Mem.order)]], Mem.trumpCard)

\* the refill order of the rules: the attacker, then every other active player
\* in seating order, the defender last
RefillOrder(g) ==
  Append(SelectSeq([i \in 1..Len(g.order) |->
                      g.order[((IndexOf(g.order, g.attackerId) + i - 1) % Len(g.order)) + 1]],
                   LAMBDA id : IsActive(g.active, id) /\ id # g.defenderId),
         g.defenderId)

\* the cards id holds when the refill of the resolving step begins
HeldBeforeRefill(id) ==
  Len(Mem.hands[id])
    + (IF Mem.takeDeclared /\ id = Mem.defenderId THEN Len(tableCards(Mem.table)) ELSE 0)

\* C27: refill. After every round resolution every player who was active in
\* the round holds at least 6 cards or the deck is empty, and the cards are
\* drawn in the refill order of the rules: a player draws only when every
\* player before them in that order holds 6 cards or more.
RefillReachesEveryPlayer ==
  [][RoundResolved =>
       /\ \/ Mem'.deck = <<>>
          \/ \A id \in Alive(Mem) : Len(Mem'.hands[id]) >= HandSize
       /\ \A i, j \in DOMAIN RefillOrder(Mem) :
            (i < j /\ Len(Mem'.hands[RefillOrder(Mem)[j]]) > HeldBeforeRefill(RefillOrder(Mem)[j]))
              => Len(Mem'.hands[RefillOrder(Mem)[i]]) >= HandSize]_vars

\* the run of accepted TRANSFER events that ends with the last handled frame
Chain == IF "chain" \in DOMAIN req THEN req.chain ELSE 0

\* C28 as stated: within one round the number of consecutive accepted
\* TRANSFER events is at most the number of seated players, for 2, 3 and 4
\* players.
TransferChainWithinSeats ==
  [](Mem # NoRoom => Chain <= Len(Mem.order))

\* C28: within one round the number of consecutive accepted TRANSFER events
\* is at most three, one for each card of the attacked rank besides the card
\* that opened the round; this is within the number of seated players for 3
\* and 4 players.
TransferChainWithinSuits ==
  [](Mem # NoRoom =>
       /\ Chain <= Len(SUITS) - 1
       /\ Len(Mem.order) >= 3 => Chain <= Len(Mem.order))

\* three players have passed the attack on, once each, and the fourth card
\* of the rank is on the table
TransferChainWithinSuitsWitness ==
  /\ Mem # NoRoom
  /\ Len(Mem.order) = 3
  /\ Chain = 3
  /\ Len(Mem.table) = 4
  /\ sent = <<StateFrames>>

\* a running round in which the defender owes an answer: no TAKE declared
\* and a pair of the table undefended
AwaitsDefense(g) ==
  g # NoRoom /\ g.phase = "playing" /\ ~g.takeDeclared /\ isNeedDefense(g.table)

\* the player may throw in card: active, not the defender, has not passed,
\* holds the card, its rank is on the table and the table is below roundLimit
MayThrowIn(g, tgId, card) ==
  /\ IsActive(g.active, tgId) /\ PlaysFromHand(g, tgId, card)
  /\ tgId # g.defenderId /\ ~Includes(g.passed, tgId)
  /\ Len(g.table) < g.roundLimit
  /\ RankOnTable(g, card)

\* C29 as stated: while takeDeclared is false and some pair on the table is
\* undefended, every ATTACK is rejected and the table does not grow.
DefenderMustRespond ==
  [][(Handled("ATTACK") /\ AwaitsDefense(Mem)) =>
       /\ Len(sent') = 1 /\ IsErrorFrame(sent'[1])
       /\ Mem'.table = Mem.table]_vars

\* C29 amended: while takeDeclared is false and some pair on the table is
\* undefended, an ATTACK is accepted from every player who may throw in the
\* card, and the card then lies as a new undefended pair behind the pairs of
\* the table; every other ATTACK is rejected and changes nothing, and no
\* rejection carries DEFENDER_MUST_RESPOND.
AttackersNeedNotWait ==
  [][(Handled("ATTACK") /\ AwaitsDefense(Mem)) =>
       \A card \in CardInputs(Mem, req'.tgId) :
         IsOutcome(onAttack(Mem, req'.tgId, card, clock)) =>
           IF MayThrowIn(Mem, req'.tgId, card)
             THEN /\ sent' = <<StateFrames>>
                  /\ Mem'.table = Append(Mem.table, [a |-> card, d |-> NoCard])
             ELSE /\ Len(sent') = 1 /\ IsErrorFrame(sent'[1])
                  /\ sent'[1].to = req'.tgId
                  /\ sent'[1].code # "DEFENDER_MUST_RESPOND"
                  /\ Mem' = Mem]_vars

\* C29 witness: a card has been thrown in behind a pair the defender has not
\* answered, with no TAKE declared.
AttackersNeedNotWaitWitness ==
  /\ Playing /\ req.type = "ATTACK" /\ req.now = clock - 1
  /\ sent = <<StateFrames>>
  /\ ~Mem.takeDeclared
  /\ Len(Mem.table) >= 2
  /\ Mem.table[Len(Mem.table) - 1].d = NoCard

\* C30: a TAKE is accepted only from the defender, when the table is not
\* empty and takeDeclared is false; a TAKE of the defender while takeDeclared
\* is already true is rejected with TAKE_ALREADY_DECLARED and changes
\* nothing: the attackers who have passed stay passed.
TakeIsDeclaredOnce ==
  [][(Handled("TAKE") /\ Mem # NoRoom) =>
       /\ sent' = <<StateFrames>> =>
            /\ req'.tgId = Mem.defenderId
            /\ Mem.table # <<>>
            /\ ~Mem.takeDeclared
       /\ (Mem.phase = "playing" /\ Mem.takeDeclared /\ req'.tgId = Mem.defenderId) =>
            /\ sent' = <<ErrorFrame(req'.tgId, "TAKE_ALREADY_DECLARED")>>
            /\ Mem' = Mem
            /\ Mem'.passed = Mem.passed]_vars

(* ------------------- properties of the throwing-in phase --------------- *)

\* the player may pass: the game runs, the player is active and not the
\* defender, the table holds a pair and the player has not passed yet
MayPass(g, tgId) ==
  /\ g.phase = "playing"
  /\ IsActive(g.active, tgId)
  /\ tgId # g.defenderId
  /\ g.table # <<>>
  /\ ~Includes(g.passed, tgId)

\* C31: a PASS is accepted only from an active player who is not the
\* defender, when the table is not empty and the player has not passed yet;
\* every other PASS is rejected: the sender gets an error frame, the game and
\* the storage stay as they were and no STATE frame is sent.
PassOnlyFromAttackers ==
  [][(Handled("PASS") /\ Mem # NoRoom) =>
       IF MayPass(Mem, req'.tgId)
         THEN sent' = <<StateFrames>>
         ELSE /\ Len(sent') = 1 /\ IsErrorFrame(sent'[1]) /\ sent'[1].to = req'.tgId
              /\ Mem' = Mem
              /\ stored' = stored]_vars

\* C32: after a TAKE has been declared, an ATTACK by an active player who is
\* not the defender and has not passed since the TAKE, with a card of their
\* hand whose rank is on the table, is accepted while the table holds fewer
\* than roundLimit pairs; roundLimit changes only when a round resolves or a
\* TRANSFER is accepted, and an accepted TAKE leaves it as it was.
ThrowingIn ==
  [][/\ (Handled("ATTACK") /\ Mem # NoRoom /\ Mem.takeDeclared) =>
          \A card \in CardInputs(Mem, req'.tgId) :
            (MayThrowIn(Mem, req'.tgId, card)
               /\ IsOutcome(onAttack(Mem, req'.tgId, card, clock))) =>
              /\ sent' = <<StateFrames>>
              /\ Mem'.table = Append(Mem.table, [a |-> card, d |-> NoCard])
              /\ Mem'.takeDeclared
     /\ AcceptedEvent("TAKE") =>
          /\ Mem'.takeDeclared
          /\ Mem'.roundLimit = Mem.roundLimit
          /\ Mem'.passed = <<>>
     /\ (Mem # NoRoom /\ Mem' # NoRoom /\ Mem'.roundLimit # Mem.roundLimit) =>
          AcceptedEvent("TRANSFER") \/ RoundResolved]_vars

\* C32 witness: a card has been thrown in after the defender declared TAKE.
ThrowingInWitness ==
  /\ Playing /\ req.type = "ATTACK" /\ req.now = clock - 1
  /\ sent = <<StateFrames>>
  /\ Mem.takeDeclared
  /\ Len(Mem.table) >= 2

\* a round in which the defender has declared TAKE
Taking(g) == g # NoRoom /\ g.phase = "playing" /\ g.takeDeclared

\* C33: once a TAKE is accepted in a round, takeDeclared stays true until the
\* round resolves, and the round resolves only by the PASS of the last
\* attacker: while takeDeclared is true the table holds a pair and some
\* attacker has not passed, no BEAT is accepted, the discard pile stays as it
\* is, and the step that ends the round leaves every card of the table in the
\* hand of the defender who declared.
TakeCommits ==
  /\ [](Taking(Mem) =>
          /\ Mem.table # <<>>
          /\ \E id \in Range(listAttackers(Mem.order, Mem.active, Mem.defenderId)) :
               ~Includes(Mem.passed, id))
  /\ [][/\ AcceptedEvent("TAKE") => Taking(Mem')
        /\ (Taking(Mem) /\ Mem' # NoRoom) =>
             /\ ~AcceptedEvent("BEAT")
             /\ Mem'.discard = Mem.discard
             /\ \/ /\ Taking(Mem')
                   /\ Mem'.defenderId = Mem.defenderId
                   /\ Len(Mem'.table) >= Len(Mem.table)
                   /\ SubSeq(Mem'.table, 1, Len(Mem.table)) = Mem.table
                \/ /\ LastPass
                   /\ Mem'.table = <<>>
                   /\ Range(tableCards(Mem.table)) \subseteq
                        Range(Mem'.hands[Mem.defenderId])]_vars

\* C33 witness: the last attacker has passed after a TAKE and the round is
\* over: the table is empty and the game goes on.
TakeCommitsWitness ==
  /\ Playing /\ req.type = "PASS" /\ req.now = clock - 1
  /\ sent = <<StateFrames>>
  /\ Mem.table = <<>>
  /\ ~Mem.takeDeclared

(* ----------------------- properties of a whole game -------------------- *)

\* the start of a round: the game runs and the table is empty
RoundStart(g) == g # NoRoom /\ g.phase = "playing" /\ g.table = <<>>

\* C34: every step that starts a round, the deal or the resolution of the
\* round before, leaves the room with an attacker and a defender who each
\* hold a card, and with roundLimit at least 1.
RoundStartsWithCards ==
  [][((Mem = NoRoom \/ Mem.table # <<>>) /\ RoundStart(Mem')) =>
       /\ Mem'.hands[Mem'.attackerId] # <<>>
       /\ Mem'.hands[Mem'.defenderId] # <<>>
       /\ Mem'.roundLimit >= 1]_vars

\* the room accepts some gameplay event from the seated player tgId
CanAct(g, tgId) ==
  \/ onTake(g, tgId, 0).code = "OK"
  \/ onPass(g, tgId, 0).code = "OK"
  \/ onBeat(g, tgId, 0).code = "OK"
  \/ \E card \in Range(g.hands[tgId]) :
       \/ onAttack(g, tgId, card, 0).code = "OK"
       \/ onTransfer(g, tgId, card, 0).code = "OK"
       \/ \E i \in 0 .. Len(g.table) - 1 : onDefend(g, tgId, IntIdx(i), card, 0).code = "OK"

\* C35: no stuck game. In every state of a running game there is a seated
\* player and a gameplay event (ATTACK, DEFEND, TRANSFER, TAKE, PASS or BEAT)
\* that the room accepts from them.
NoStuckGame ==
  Playing => \E tgId \in Range(Mem.order) : CanAct(Mem, tgId)

\* C36: when the players of SpecFair play on (the attacker opens, the
\* attackers pass, the defender answers and declares TAKE once), every round
\* on the table is resolved and the room reaches phase = finished.
EveryGameEnds ==
  /\ (Mem # NoRoom /\ Mem.table # <<>>) ~> (Mem # NoRoom /\ Mem.table = <<>>)
  /\ <>(Mem # NoRoom /\ Mem.phase = "finished")

\* the player p is out of the game g: no card to draw, no card in hand, no
\* role in a round that is being played
StaysOut(g, p) ==
  /\ g.deck = <<>>
  /\ g.hands[p] = <<>>
  /\ g.phase = "playing" => p \notin {g.attackerId, g.defenderId}

\* C37: inactive players stay out. A player whose active flag is false has no
\* card, the deck is empty and the player is neither attacker nor defender of
\* a running game; no step makes the flag true again.
InactiveStayOut ==
  /\ [](Mem # NoRoom =>
          \A p \in Range(Mem.order) : ~IsActive(Mem.active, p) => StaysOut(Mem, p))
  /\ [][(Mem # NoRoom /\ Mem' # NoRoom) =>
          \A p \in Range(Mem.order) : ~IsActive(Mem.active, p) => ~IsActive(Mem'.active, p)]_vars

\* C37 witness: a round has been resolved and started the next one of a
\* running game in which a player is out.
InactiveStayOutWitness ==
  /\ Playing /\ req.type \in {"PASS", "BEAT"} /\ sent = <<StateFrames>>
  /\ Mem.table = <<>>
  /\ \E p \in Range(Mem.order) : ~IsActive(Mem.active, p)

\* C38: the allowed.attack flag is exact. In every state of a room and for
\* every seated player, the view built for the player has allowed.attack set
\* if and only if the player holds a card whose ATTACK the room accepts.
AllowedAttackExact ==
  Mem # NoRoom =>
    \A tgId \in Range(Mem.order) :
      buildStateFor(Mem, tgId).allowed.attack
        <=> \E card \in Range(HandOf(Mem, tgId)) : onAttack(Mem, tgId, card, clock).code = "OK"

\* storage holds a binding of the player p that has not expired
HoldsBinding(p) == match[p] # NoMatch /\ match[p].expiresAt > mmNow

\* C39: a player is never placed in two rooms at once. A player who holds an
\* unexpired binding to a room is in no queue of any config, and no step
\* binds the player to another room.
NeverInTwoRooms ==
  /\ [](\A p \in MmPlayers : HoldsBinding(p) => \A key \in DOMAIN queue : ~Includes(queue[key], p))
  /\ [][\A p \in MmPlayers : HoldsBinding(p) => match'[p] = match[p]]_vars

GameplayTypes == {"ATTACK", "DEFEND", "TRANSFER", "TAKE", "PASS", "BEAT"}

\* C40: finished is absorbing. A gameplay frame (ATTACK, DEFEND, TRANSFER,
\* TAKE, PASS or BEAT) handled by a room whose game is finished leaves every
\* field of the game as it was and writes nothing to storage.
FinishedIsAbsorbing ==
  [][(Mem # NoRoom /\ Mem.phase = "finished"
        /\ \E type \in GameplayTypes : Handled(type)) =>
       /\ Mem' = Mem
       /\ stored' = stored]_vars

\* C40 witness: a room whose game is finished has handled a gameplay frame
\* of a seated player
FinishedIsAbsorbingWitness ==
  /\ Mem # NoRoom /\ Mem.phase = "finished"
  /\ req.type \in GameplayTypes /\ Includes(Mem.order, req.tgId)
  /\ sent = <<ErrorFrame(req.tgId, "GAME_NOT_PLAYING")>>

====
